---- MODULE Spec2Model ----
(***************************************************************************)
(* A model of tui_player's core: the FrameBuffer (core/src/video/frame.rs),*)
(* its prefetch worker, and the protocol dispatcher of                     *)
(* TerminalRenderer::render (core/src/render.rs).                          *)
(*                                                                         *)
(* Time.  Timestamps are f64 seconds in the source.  Here a timestamp is   *)
(* an integer number of ticks, TicksPerMs ticks to the millisecond, so     *)
(* that the millisecond key (timestamp * 1000.0) as i64 is a truncating    *)
(* division and not the identity.                                          *)
(*                                                                         *)
(* Frames.  A VideoFrame is modelled by its timestamp alone; the pixels    *)
(* play no part in the buffer's logic.                                     *)
(***************************************************************************)
EXTENDS Integers, Sequences, FiniteSets, TLC

\* ------------------------------------------------------------------ bounds

\* Ticks per millisecond: the resolution of the modelled f64 timestamps.
TicksPerMs == 2
\* Frame timestamps and seek targets range over the whole seconds 0..MaxSeconds
\* (and one sub-millisecond timestamp).
MaxSeconds == 3
\* FrameBuffer::new(capacity) is tried for every capacity in 0..MaxCapacity.
MaxCapacity == 3
\* The capacity range of the buffers whose prefetch worker is modelled.
MaxPrefetchCapacity == 2
\* decode_fn hands out frames stamped with whole seconds 0..MaxDecodeSeconds.
MaxDecodeSeconds == 1
\* Number of TerminalRenderer objects living in the process.
NumRenderers == 2
\* Number of distinct input frames handed to render().
NumFrames == 1

\* f64::MAX in ticks: the largest finite timestamp distance.  Every frame
\* timestamp of the model lies far below it.
F64Max == 100000
\* The frames handed to render_blocks are up to MaxImageHeight pixels high (one
\* or two pixels wide).
MaxImageHeight == 2
\* VideoFrame::resize is tried on frames up to MaxFrameDim pixels a side and
\* targets up to MaxTargetDim a side (and on the sizes of its tests).
MaxFrameDim == 7
MaxTargetDim == 8
\* A GpuProcessor is followed through this many process_frame calls; the call
\* in which a cached resource was created names it.
MaxGpuCalls == 3
\* render_sixel is tried on a column of MaxSixelHeight pixels (two bands) and on
\* images MaxSixelWidth pixels wide.
MaxSixelHeight == 7
MaxSixelWidth == 2
\* The video a LocalMediaPlayer plays: its frame rate in frames per second and
\* the number of frames the decoder can deliver.
VideoFps == 1
MaxVideoFrames == 6
\* The most control messages waiting in the audio channel.
MaxControlMessages == 2
\* The resolution of the modelled f32 quality factor: units to 0.2.
QualityUnitsPerFifth == 10
\* The measured frame time holds for this many render() calls of an adjustment
\* period before the load can change.
LoadHold == 8
\* With adaptive_resolution off frames_since_quality_adjust only grows: the
\* render() calls are followed until it reaches this count.
MaxUnadjusted == 20

\* --------------------------------------------------------------- constants

\* frame.rs:57  (frame.timestamp * 1000.0) as i64
MsPerSec == 1000
\* frame.rs:149 let buffer_time = 2.0; // seconds
buffer_time_secs == 2
\* frame.rs:205 let max_decode_errors = 5;
max_decode_errors == 5

\* The bits of an f32 significand (video.rs:70 `as f32`).
f32_bits == 24
\* render.rs:1166 const CHUNK_SIZE: usize = 32;
CHUNK_SIZE == 32
\* render.rs:1171 [999u16; 3]; // Invalid color to force first update
invalid_color == 999
\* render.rs:1202 ((c as u16 * a as u16) + 127) >> 8
blend_round == 127
blend_shift == 8
\* render.rs:99  target_fps: 30.0
target_fps == 30
\* render.rs:608 if self.frame_times.len() > 15
window_len == 15
\* render.rs:615 self.frames_since_quality_adjust >= 15
adjust_interval == 15
\* render.rs:632 0.033 // Default to 30 FPS
default_frame_time_ms == 33
\* render.rs:638 30.0
default_fps == 30
\* render.rs:653, 660, 667, 674: the fps thresholds, in percent of target_fps
very_low_pct == 40
low_pct == 70
very_good_pct == 170
good_pct == 130
\* render.rs:655, 662, 669, 676: the factors, in percent
very_low_scale == 70
low_scale == 85
very_good_scale == 120
good_scale == 107
\* wgpu::COPY_BYTES_PER_ROW_ALIGNMENT and the bytes of an RGBA pixel (gpu.rs:301-302)
align == 256
bytes_per_pixel == 4
\* below this target size render() does not use the GPU (render.rs:314)
min_gpu_dim == 32

TicksPerSec == MsPerSec * TicksPerMs
buffer_time == buffer_time_secs * TicksPerSec

\* The timestamps of the frames offered to add_frame and of the seek targets.
Timestamps == {s * TicksPerSec : s \in 0..MaxSeconds} \cup {1}

\* f64::INFINITY: beyond every finite value.
Infinity == F64Max + 1

\* The timestamps get_frame_at is asked for: the sub-millisecond timestamp
\* (which shares its bucket with the frame at 0), one second, 1.5 s (halfway
\* between two frames, in a bucket no frame has), and infinity.
QueryTimestamps == {1, TicksPerSec, (3 * TicksPerSec) \div 2, Infinity}

DecoderTimestamps == {s * TicksPerSec : s \in 0..MaxDecodeSeconds}

\* Option<T>: None is <<>>, Some(x) is <<x>>.
None == <<>>
Some(x) == <<x>>

\* ------------------------------------------------------------------- state

VARIABLES
    \* FrameBuffer fields (frame.rs:13-28)
    frames,            \* VecDeque<VideoFrame>, front first
    timestamp_map,     \* HashMap<i64, usize>: millisecond key -> 0-based index
    capacity,
    prefetching,
    current_position,
    prefetch_thread,   \* Option<JoinHandle>: TRUE when a handle is held
    stop_prefetch,     \* Arc<Mutex<bool>>
    \* the caller's side
    dropped,           \* the FrameBuffer has been dropped
    caller,            \* "idle", or "joining" inside stop_prefetching's join
    ret,               \* the last FrameBuffer call and what it returned
    \* the prefetch worker thread (frame.rs:201-244)
    wpc,               \* "none" | "loop" | "decode" | "sleep_full" | "sleep_retry" | "finished"
    frames_decoded,
    consecutive_errors,
    decode_log,        \* every result decode_fn gave this worker, oldest first
    \* TerminalRenderer and the statics of render() (render.rs:109-124, 403-406)
    effective_method,  \* per renderer
    enable_gpu,        \* per renderer: config.enable_gpu
    LAST_METHOD,
    KITTY_FAILED,
    ITERM_FAILED,
    SIXEL_FAILED,
    out,               \* what the last render() call did and returned
    \* the adaptive quality controller of a TerminalRenderer (render.rs:115-118)
    frame_times,       \* VecDeque<f64>: the rolling window, oldest first
    current_quality_factor,
    frames_since_quality_adjust,
    adaptive_resolution,   \* config.adaptive_resolution
    metrics,           \* what the last update_performance_metrics call measured and did
    \* the Block Renderer (render.rs:1092-1260)
    image,             \* the frame last handed to render_blocks: frame.image.to_rgba8()
    term,              \* term_width, term_height, config.x, config.y
    overflow_checks,   \* the build: TRUE when integer overflow panics (debug)
    blocks_out,        \* what the last render_blocks call wrote and returned
    \* VideoFrame::resize (video.rs:57-102)
    rz,                \* a resize call: the frame, the arguments, and the returned frame
    \* the GPU singleton and the GPU branch of render() (render.rs:18-33, 318-384)
    GPU_PROCESSOR,     \* the mutex, the GpuProcessor's caches, and the call inside it
    gpu_out,           \* how the last render() call got its resized frame
    \* a function of the renderer that depends on its arguments alone
    fn_call,           \* the call: the function, its arguments, and the value once returned
    \* LocalMediaPlayer (media/local.rs:24-37); its frame_buffer is the FrameBuffer above
    player             \* the player's fields, its decoder, and its audio thread

bufVars == <<frames, timestamp_map, capacity, current_position>>
threadVars == <<prefetching, prefetch_thread, stop_prefetch, dropped, caller>>
workerVars == <<wpc, frames_decoded, consecutive_errors, decode_log>>
renderVars == <<effective_method, enable_gpu, LAST_METHOD, KITTY_FAILED,
                ITERM_FAILED, SIXEL_FAILED, out>>
qualityVars == <<frame_times, current_quality_factor,
                 frames_since_quality_adjust, adaptive_resolution, metrics>>
\* The state of the pixel pipeline, which the buffer, the worker and the
\* dispatcher do not touch.
blockVars == <<image, term, overflow_checks, blocks_out>>
gpuVars == <<GPU_PROCESSOR, gpu_out>>
pixelVars == <<qualityVars, blockVars, rz, gpuVars, fn_call, player>>
vars == <<frames, timestamp_map, capacity, current_position, ret,
          prefetching, prefetch_thread, stop_prefetch, dropped, caller,
          wpc, frames_decoded, consecutive_errors, decode_log,
          effective_method, enable_gpu, LAST_METHOD, KITTY_FAILED,
          ITERM_FAILED, SIXEL_FAILED, out,
          frame_times, current_quality_factor, frames_since_quality_adjust,
          adaptive_resolution, metrics,
          image, term, overflow_checks, blocks_out, rz, GPU_PROCESSOR, gpu_out, fn_call, player>>

\* ------------------------------------------------------- FrameBuffer helpers

\* `x as i64` of a quotient: truncation toward zero.
TruncDiv(a, b) == IF a >= 0 THEN a \div b ELSE -((-a) \div b)

\* (frame.timestamp * 1000.0) as i64
timestamp_key(ts) == TruncDiv(ts * MsPerSec, TicksPerSec)

\* HashMap::insert
MapInsert(m, k, v) == [x \in (DOMAIN m) \cup {k} |-> IF x = k THEN v ELSE m[x]]

EmptyMap == [x \in {} |-> 0]

\* The while loop of cleanup_old_frames: pop the front while it is older than
\* the cutoff.
RECURSIVE PopOld(_, _)
PopOld(fs, cutoff) ==
    IF fs = <<>> \/ Head(fs) >= cutoff THEN fs
    ELSE PopOld(Tail(fs), cutoff)

\* rebuild_timestamp_map: insert every frame's key in index order.
RECURSIVE RebuildFrom(_, _, _)
RebuildFrom(fs, i, m) ==
    IF i > Len(fs) THEN m
    ELSE RebuildFrom(fs, i + 1, MapInsert(m, timestamp_key(fs[i]), i - 1))

rebuild_timestamp_map(fs) == RebuildFrom(fs, 1, EmptyMap)

\* cleanup_old_frames that pops the old frames and keeps the map as it was.
cleanup_old_frames_StaleMap(fs, m, pos) ==
    LET cutoff == pos - buffer_time
        kept == PopOld(fs, cutoff)
    IN  IF cutoff <= 0 THEN [frames |-> fs, map |-> m, removed |-> 0]
        ELSE [frames |-> kept, map |-> m, removed |-> Len(fs) - Len(kept)]

\* cleanup_old_frames: the frames and the map it leaves.
cleanup_old_frames(fs, m, pos) ==
    LET cutoff == pos - buffer_time
        kept == PopOld(fs, cutoff)
    IN  IF cutoff <= 0 THEN [frames |-> fs, map |-> m, removed |-> 0]
        ELSE IF Len(kept) < Len(fs)
             THEN [frames |-> kept, map |-> rebuild_timestamp_map(kept),
                   removed |-> Len(fs) - Len(kept)]
             ELSE [frames |-> fs, map |-> m, removed |-> 0]

\* A FrameBuffer call as the caller sees it: the method, its argument, whether
\* it reported success, the frame it returned, and removed_count as
\* cleanup_old_frames logs it (0 when cleanup did not run or removed nothing).
Call(op, arg, ok, frame, removed) ==
    [op |-> op, arg |-> arg, ok |-> ok, frame |-> frame, removed |-> removed]

\* ------------------------------------------------------ FrameBuffer methods

\* add_frame as written, but without the second capacity test after cleanup.
add_frame_NoRecheck(fs, m, cap, pos, ts) ==
    LET c == IF Len(fs) >= cap THEN cleanup_old_frames(fs, m, pos)
             ELSE [frames |-> fs, map |-> m, removed |-> 0]
    IN  [frames |-> Append(c.frames, ts),
         map |-> MapInsert(c.map, timestamp_key(ts), Len(c.frames)),
         ok |-> TRUE, removed |-> c.removed]

\* add_frame as written, but skipping cleanup on a full buffer.
add_frame_NoCleanup(fs, m, cap, pos, ts) ==
    IF Len(fs) >= cap THEN [frames |-> fs, map |-> m, ok |-> FALSE, removed |-> 0]
    ELSE [frames |-> Append(fs, ts),
          map |-> MapInsert(m, timestamp_key(ts), Len(fs)),
          ok |-> TRUE, removed |-> 0]

\* add_frame: the frames, the map and the returned bool.
add_frame(fs, m, cap, pos, ts) ==
    LET c == IF Len(fs) >= cap THEN cleanup_old_frames(fs, m, pos)
             ELSE [frames |-> fs, map |-> m, removed |-> 0]
    IN  IF Len(fs) >= cap /\ Len(c.frames) >= cap
        THEN [frames |-> c.frames, map |-> c.map, ok |-> FALSE,
              removed |-> c.removed]
        ELSE [frames |-> Append(c.frames, ts),
              map |-> MapInsert(c.map, timestamp_key(ts), Len(c.frames)),
              ok |-> TRUE, removed |-> c.removed]

\* next_frame as written, but signalling the end of the stream with None when
\* no frame lies after the position.
next_frame_EndOfStream(fs, pos) ==
    LET later == {i \in 1..Len(fs) : fs[i] > pos}
    IN  IF fs = <<>> \/ later = {} THEN [pos |-> pos, frame |-> None]
        ELSE LET i == CHOOSE x \in later : \A y \in later : x <= y
             IN  [pos |-> fs[i], frame |-> Some(fs[i])]

\* next_frame: the new current_position and the returned Option<VideoFrame>.
next_frame(fs, pos) ==
    LET later == {i \in 1..Len(fs) : fs[i] > pos}
    IN  IF fs = <<>> THEN [pos |-> pos, frame |-> None]
        ELSE IF later # {}
             THEN LET i == CHOOSE x \in later : \A y \in later : x <= y
                  IN  [pos |-> fs[i], frame |-> Some(fs[i])]
             ELSE [pos |-> fs[Len(fs)], frame |-> Some(fs[Len(fs)])]

\* (frame.timestamp - timestamp).abs() in f64: a distance from infinity is
\* infinite.
abs_diff(a, b) ==
    IF a = Infinity \/ b = Infinity THEN Infinity
    ELSE IF a >= b THEN a - b ELSE b - a

\* The scan of get_frame_at (frame.rs:83-94) from frame i on: closest_frame
\* after the loop.
RECURSIVE ClosestFrom(_, _, _, _, _)
ClosestFrom(fs, ts, i, min_diff, closest_frame) ==
    IF i > Len(fs) THEN closest_frame
    ELSE IF abs_diff(fs[i], ts) < min_diff
         THEN ClosestFrom(fs, ts, i + 1, abs_diff(fs[i], ts), Some(fs[i]))
         ELSE ClosestFrom(fs, ts, i + 1, min_diff, closest_frame)

\* get_frame_at: the returned Option<VideoFrame>.  (The key of an infinite
\* timestamp saturates to i64::MAX; here it is a key no frame has.)
get_frame_at(fs, m, ts) ==
    IF fs = <<>> THEN None
    ELSE IF timestamp_key(ts) \in DOMAIN m /\ m[timestamp_key(ts)] < Len(fs)
         THEN Some(fs[m[timestamp_key(ts)] + 1])
         ELSE ClosestFrom(fs, ts, 1, F64Max, None)

GetFrameAt(ts) ==
    /\ ~dropped /\ caller = "idle"
    /\ \E r \in {get_frame_at(frames, timestamp_map, ts)} :
          ret' = Call("get_frame_at", Some(ts), r # None, r, 0)
    /\ UNCHANGED bufVars
    /\ UNCHANGED <<threadVars, workerVars, renderVars, pixelVars>>

\* current_frame: get_frame_at(current_position).
CurrentFrame ==
    /\ ~dropped /\ caller = "idle"
    /\ \E r \in {get_frame_at(frames, timestamp_map, current_position)} :
          ret' = Call("current_frame", None, r # None, r, 0)
    /\ UNCHANGED bufVars
    /\ UNCHANGED <<threadVars, workerVars, renderVars, pixelVars>>

AddFrame(ts) ==
    /\ ~dropped /\ caller = "idle"
    /\ LET r == add_frame(frames, timestamp_map, capacity, current_position, ts)
       IN  /\ frames' = r.frames
           /\ timestamp_map' = r.map
           /\ ret' = Call("add_frame", Some(ts), r.ok, None, r.removed)
    /\ UNCHANGED <<capacity, current_position>>
    /\ UNCHANGED <<threadVars, workerVars, renderVars, pixelVars>>

NextFrame ==
    /\ ~dropped /\ caller = "idle"
    /\ LET r == next_frame(frames, current_position)
       IN  /\ current_position' = r.pos
           /\ ret' = Call("next_frame", None, r.frame # None, r.frame, 0)
    /\ UNCHANGED <<frames, timestamp_map, capacity>>
    /\ UNCHANGED <<threadVars, workerVars, renderVars, pixelVars>>

Seek(ts) ==
    /\ ~dropped /\ caller = "idle"
    /\ LET c == cleanup_old_frames(frames, timestamp_map, ts)
       IN  /\ current_position' = ts
           /\ frames' = c.frames
           /\ timestamp_map' = c.map
           /\ ret' = Call("seek", Some(ts), TRUE, None, c.removed)
    /\ UNCHANGED capacity
    /\ UNCHANGED <<threadVars, workerVars, renderVars, pixelVars>>

Clear ==
    /\ ~dropped /\ caller = "idle"
    /\ frames' = <<>>
    /\ timestamp_map' = EmptyMap
    /\ current_position' = 0
    /\ ret' = Call("clear", None, TRUE, None, 0)
    /\ UNCHANGED capacity
    /\ UNCHANGED <<threadVars, workerVars, renderVars, pixelVars>>

\* ---------------------------------------------------------- prefetch worker

\* What decode_fn can return: Ok(Some(frame)), Ok(None), Err(e).
DecodeResults ==
    {[kind |-> "frame", ts |-> t] : t \in DecoderTimestamps}
        \cup {[kind |-> "eos", ts |-> 0], [kind |-> "err", ts |-> 0]}

WorkerRunning == wpc \in {"loop", "decode", "sleep_full", "sleep_retry"}

\* The match on decoder_callback() as written, but with the error count never
\* reset by a success.
worker_decode_NoReset(res, decoded, errors) ==
    IF res.kind = "frame"
    THEN [decoded |-> decoded + 1, errors |-> errors, pc |-> "loop"]
    ELSE IF res.kind = "eos"
    THEN [decoded |-> decoded, errors |-> errors, pc |-> "finished"]
    ELSE [decoded |-> decoded, errors |-> errors + 1,
          pc |-> IF errors + 1 >= max_decode_errors THEN "finished"
                 ELSE "sleep_retry"]

\* The match on decoder_callback() (frame.rs:217-240): the counters and where
\* the worker goes next.  The decoded frame itself is only traced.
worker_decode(res, decoded, errors) ==
    IF res.kind = "frame"
    THEN [decoded |-> decoded + 1, errors |-> 0, pc |-> "loop"]
    ELSE IF res.kind = "eos"
    THEN [decoded |-> decoded, errors |-> errors, pc |-> "finished"]
    ELSE [decoded |-> decoded, errors |-> errors + 1,
          pc |-> IF errors + 1 >= max_decode_errors THEN "finished"
                 ELSE "sleep_retry"]

\* JoinHandle::join as written, but returning without waiting for the thread.
join_returns_Detached(w) == TRUE

\* JoinHandle::join returns once the thread has terminated.
join_returns(w) == w = "finished"

\* start_prefetching: returns at once when already prefetching; otherwise
\* resets the stop flag, spawns the worker and records the handle.
StartPrefetching ==
    /\ ~dropped /\ caller = "idle"
    /\ IF prefetching
       THEN /\ ret' = Call("start_prefetching", None, FALSE, None, 0)
            /\ UNCHANGED <<threadVars, workerVars>>
       ELSE /\ stop_prefetch' = FALSE
            /\ wpc' = "loop"
            /\ frames_decoded' = 0
            /\ consecutive_errors' = 0
            /\ decode_log' = <<>>
            /\ prefetch_thread' = TRUE
            /\ prefetching' = TRUE
            /\ ret' = Call("start_prefetching", None, TRUE, None, 0)
            /\ UNCHANGED <<dropped, caller>>
    /\ UNCHANGED <<bufVars, renderVars, pixelVars>>

\* The head of the worker's loop: the stop flag test, then the full test.
WorkerLoop ==
    /\ wpc = "loop"
    /\ wpc' = IF stop_prefetch THEN "finished"
              ELSE IF frames_decoded >= capacity THEN "sleep_full"
              ELSE "decode"
    /\ UNCHANGED <<frames_decoded, consecutive_errors, decode_log>>
    /\ UNCHANGED <<bufVars, ret, threadVars, renderVars, pixelVars>>

\* thread::sleep returns and the loop goes round (continue / end of body).
WorkerWake ==
    /\ wpc \in {"sleep_full", "sleep_retry"}
    /\ wpc' = "loop"
    /\ UNCHANGED <<frames_decoded, consecutive_errors, decode_log>>
    /\ UNCHANGED <<bufVars, ret, threadVars, renderVars, pixelVars>>

\* decoder_callback() returns res and the worker matches on it.
WorkerDecode(res) ==
    /\ wpc = "decode"
    /\ LET w == worker_decode(res, frames_decoded, consecutive_errors)
       IN  /\ frames_decoded' = w.decoded
           /\ consecutive_errors' = w.errors
           /\ wpc' = w.pc
    /\ decode_log' = Append(decode_log, res)
    /\ UNCHANGED <<bufVars, ret, threadVars, renderVars, pixelVars>>

\* stop_prefetching up to its join: returns at once when not prefetching;
\* otherwise sets the stop flag, takes the handle and waits in join.
StopPrefetching ==
    /\ ~dropped /\ caller = "idle"
    /\ IF ~prefetching
       THEN /\ ret' = Call("stop_prefetching", None, FALSE, None, 0)
            /\ UNCHANGED threadVars
       ELSE /\ stop_prefetch' = TRUE
            /\ prefetch_thread' = FALSE
            /\ caller' = IF prefetch_thread THEN "joining_stop" ELSE "returning_stop"
            /\ UNCHANGED <<prefetching, dropped, ret>>
    /\ UNCHANGED <<bufVars, workerVars, renderVars, pixelVars>>

\* Drop for FrameBuffer: stop_prefetching, then the buffer is gone.
Drop ==
    /\ ~dropped /\ caller = "idle"
    /\ IF ~prefetching
       THEN /\ dropped' = TRUE
            /\ ret' = Call("drop", None, FALSE, None, 0)
            /\ UNCHANGED <<prefetching, prefetch_thread, stop_prefetch, caller>>
       ELSE /\ stop_prefetch' = TRUE
            /\ prefetch_thread' = FALSE
            /\ caller' = IF prefetch_thread THEN "joining_drop" ELSE "returning_drop"
            /\ UNCHANGED <<prefetching, dropped, ret>>
    /\ UNCHANGED <<bufVars, workerVars, renderVars, pixelVars>>

\* The rest of stop_prefetching: join returns, prefetching is cleared and the
\* call (or the drop that made it) returns.
JoinReturns ==
    /\ caller \in {"joining_stop", "joining_drop", "returning_stop", "returning_drop"}
    /\ caller \in {"joining_stop", "joining_drop"} => join_returns(wpc)
    /\ prefetching' = FALSE
    /\ caller' = "idle"
    /\ dropped' = (caller \in {"joining_drop", "returning_drop"})
    /\ ret' = Call(IF caller \in {"joining_drop", "returning_drop"} THEN "drop"
                   ELSE "stop_prefetching", None, TRUE, None, 0)
    /\ UNCHANGED <<prefetch_thread, stop_prefetch>>
    /\ UNCHANGED <<bufVars, workerVars, renderVars, pixelVars>>

\* ------------------------------------------------- TerminalRenderer::render

Methods == {"Kitty", "ITerm", "Sixel", "Blocks"}
Protocols == {"Kitty", "ITerm", "Sixel"}

\* What a backend call can do: return Ok, return Err, or panic.
BackendOutcomes == {"ok", "err", "panic"}
\* What render_blocks can return.
BlocksOutcomes == {"ok", "err"}
\* The size of the input frame against the target: no resize needed, a target
\* below 32 px (fast_thumbnail), or a full resize.
SizeCases == {"same", "small", "large"}
\* The GPU singleton as render() finds it: locked within 100 ms with a
\* processor, locked with None inside, not locked in time, or process_frame
\* panicking.
GpuCases == {"ready", "absent", "busy", "panics"}

\* A frame as a backend receives it: the input frame and how it was resized.
NoFrame == [src |-> 0, via |-> "none"]
Resized(f, via) == [src |-> f, via |-> via]

\* The resize step (render.rs:311-393): the resized frame, or the early return
\* through render_blocks when the GPU cannot be used.
resize_step(eff, gpu_on, f, size, gpu) ==
    IF size = "same" THEN [early |-> FALSE, frame |-> Resized(f, "clone")]
    ELSE IF size = "small" THEN [early |-> FALSE, frame |-> Resized(f, "thumbnail")]
    ELSE IF eff # "Blocks" /\ gpu_on
    THEN IF gpu \in {"busy", "absent"}
         THEN [early |-> TRUE, frame |-> Resized(f, "cpu")]
         ELSE IF gpu = "panics" THEN [early |-> FALSE, frame |-> Resized(f, "cpu")]
         ELSE [early |-> FALSE, frame |-> Resized(f, "gpu")]
    ELSE [early |-> FALSE, frame |-> Resized(f, "cpu")]

\* The choice of current_method (render.rs:409-429).  LAST_METHOD never holds
\* Auto, so the memo is used whenever it is set.
select_method(eff, last, kitty_failed, iterm_failed, sixel_failed) ==
    IF kitty_failed /\ eff = "Kitty" THEN "Blocks"
    ELSE IF iterm_failed /\ eff = "ITerm" THEN "Blocks"
    ELSE IF sixel_failed /\ eff = "Sixel" THEN "Blocks"
    ELSE IF last # None THEN last[1]
    ELSE eff

\* Whether a backend's panic is caught: only the Kitty call is wrapped in
\* catch_unwind (render.rs:435); render_iterm and render_sixel are called bare.
panic_caught(method) == method = "Kitty"

\* A failure arm as written, but handing the backend's own error back.
failure_arm_ReturnsBackendError(method, frame, blocks) ==
    [flag |-> method, last |-> Some("Blocks"), cleared |-> TRUE,
     blocks_called |-> FALSE, blocks_frame |-> NoFrame, blocks_result |-> "none",
     result |-> "backend_err"]

\* A failure arm (render.rs:457-468 and its copies): the sticky flag, the memo,
\* the screen clear, and the same frame through render_blocks, whose result is
\* the arm's value.
failure_arm(method, frame, blocks) ==
    [flag |-> method, last |-> Some("Blocks"), cleared |-> TRUE,
     blocks_called |-> TRUE, blocks_frame |-> frame, blocks_result |-> blocks,
     result |-> IF blocks = "ok" THEN "ok" ELSE "blocks_err"]

\* The match on current_method (render.rs:432-526): what the arm does and the
\* value of `result`; a panic that is not caught unwinds out of render().
dispatch(method, frame, backend, blocks) ==
    IF method = "Blocks"
    THEN [flag |-> "none", last |-> None, cleared |-> FALSE,
          blocks_called |-> TRUE, blocks_frame |-> frame, blocks_result |-> blocks,
          result |-> IF blocks = "ok" THEN "ok" ELSE "blocks_err"]
    ELSE IF backend = "ok"
    THEN [flag |-> "none", last |-> None, cleared |-> FALSE,
          blocks_called |-> FALSE, blocks_frame |-> NoFrame, blocks_result |-> "none",
          result |-> "ok"]
    ELSE IF backend = "err" \/ panic_caught(method)
    THEN failure_arm(method, frame, blocks)
    ELSE [flag |-> "none", last |-> None, cleared |-> FALSE,
          blocks_called |-> FALSE, blocks_frame |-> NoFrame, blocks_result |-> "none",
          result |-> "panic"]

\* The record of a render() call that went through the dispatch.
render_outcome(r, f, method, frame, backend, d) ==
    [renderer |-> r, frame |-> f, method |-> method,
     backend |-> IF method = "Blocks" THEN "none" ELSE method,
     backend_result |-> IF method = "Blocks" THEN "none" ELSE backend,
     backend_frame |-> IF method = "Blocks" THEN NoFrame ELSE frame,
     flag_set |-> d.flag # "none",
     cleared |-> d.cleared, blocks_called |-> d.blocks_called,
     blocks_frame |-> d.blocks_frame,
     blocks_result |-> d.blocks_result, result |-> d.result]

\* The record of a render() call that returned early from the GPU branch
\* (render.rs:330, 342): render_blocks on the CPU-resized frame, no dispatch.
early_outcome(r, f, frame, blocks) ==
    [renderer |-> r, frame |-> f, method |-> "Blocks",
     backend |-> "none", backend_result |-> "none",
     backend_frame |-> NoFrame, flag_set |-> FALSE,
     cleared |-> FALSE, blocks_called |-> TRUE,
     blocks_frame |-> frame, blocks_result |-> blocks,
     result |-> IF blocks = "ok" THEN "ok" ELSE "blocks_err"]

\* render(frame) by renderer r.  size and gpu decide the resize step; backend
\* and blocks are what the backend call and render_blocks do if they are called.
\* (rs, method and d are bound once each: the resize step, current_method and
\* the dispatch.)
Render(r, f, size, gpu, backend, blocks) ==
    \E rs \in {resize_step(effective_method[r], enable_gpu[r], f, size, gpu)},
       method \in {select_method(effective_method[r], LAST_METHOD, KITTY_FAILED,
                                 ITERM_FAILED, SIXEL_FAILED)} :
      \E d \in {dispatch(method, rs.frame, backend, blocks)} :
        IF rs.early
        THEN /\ out' = early_outcome(r, f, rs.frame, blocks)
             /\ UNCHANGED <<LAST_METHOD, KITTY_FAILED, ITERM_FAILED, SIXEL_FAILED>>
        ELSE /\ KITTY_FAILED' = (KITTY_FAILED \/ d.flag = "Kitty")
             /\ ITERM_FAILED' = (ITERM_FAILED \/ d.flag = "ITerm")
             /\ SIXEL_FAILED' = (SIXEL_FAILED \/ d.flag = "Sixel")
             /\ LAST_METHOD' = IF d.result = "ok" THEN Some(method)
                               ELSE IF d.last # None THEN d.last
                               ELSE LAST_METHOD
             /\ out' = render_outcome(r, f, method, rs.frame, backend, d)

\* The inputs that a render() call by renderer r can depend on: an outcome is
\* drawn only for a step the call takes ("unused" otherwise).
GpuInputs(r, size) ==
    IF size = "large" /\ effective_method[r] # "Blocks" /\ enable_gpu[r]
    THEN GpuCases ELSE {"unused"}

BackendInputs(r, f, size, gpu) ==
    IF resize_step(effective_method[r], enable_gpu[r], f, size, gpu).early
       \/ select_method(effective_method[r], LAST_METHOD, KITTY_FAILED,
                        ITERM_FAILED, SIXEL_FAILED) = "Blocks"
    THEN {"unused"} ELSE BackendOutcomes

BlocksInputs(r, backend) ==
    IF backend = "ok"
       \/ (backend = "panic"
           /\ ~panic_caught(select_method(effective_method[r], LAST_METHOD,
                                          KITTY_FAILED, ITERM_FAILED, SIXEL_FAILED)))
    THEN {"unused"} ELSE BlocksOutcomes

RenderCall ==
    /\ \E r \in 1..NumRenderers, f \in 1..NumFrames, size \in SizeCases :
        \E gpu \in GpuInputs(r, size) :
          \E backend \in BackendInputs(r, f, size, gpu) :
            \E blocks \in BlocksInputs(r, backend) :
              Render(r, f, size, gpu, backend, blocks)
    /\ UNCHANGED <<effective_method, enable_gpu>>
    /\ UNCHANGED <<bufVars, ret, threadVars, workerVars, pixelVars>>

\* ------------------------------------------- adaptive quality controller

\* current_quality_factor is an f32; here it is a whole number of units, with
\* 0.2 = QualityFloor and 1.0 = QualityOne, and a product is rounded to the
\* nearest unit as an f32 product is rounded to the nearest f32.
QualityFloor == QualityUnitsPerFifth
QualityOne == 5 * QualityUnitsPerFifth

scale(q, pct) == (q * pct + 50) \div 100

Max(a, b) == IF a >= b THEN a ELSE b
Min(a, b) == IF a <= b THEN a ELSE b

\* The frame times render() can measure, in ticks: 1 ms and 1000 ms are the
\* two ends that the window refuses.
FrameTimes == {ms * TicksPerMs : ms \in {1, 10, 22, 33, 60, 100, 1000}}

\* frame_time > 0.001 && frame_time < 1.0
accepted(ft) == ft > TicksPerMs /\ ft < TicksPerSec

\* push_back as written, but without the pop_front.
push_frame_time_Unbounded(times, ft) == Append(times, ft)

\* push_back, then pop_front when the window is longer than window_len.
push_frame_time(times, ft) ==
    LET pushed == Append(times, ft)
    IN  IF Len(pushed) > window_len THEN Tail(pushed) ELSE pushed

\* times[k - 1] of the sorted copy of the window (k counts from 1).
Sorted(times, k) ==
    CHOOSE v \in {times[i] : i \in 1..Len(times)} :
        /\ Cardinality({i \in 1..Len(times) : times[i] < v}) < k
        /\ Cardinality({i \in 1..Len(times) : times[i] <= v}) >= k

\* Twice the sum of times[i..].
RECURSIVE Sum2From(_, _)
Sum2From(times, i) ==
    IF i > Len(times) THEN 0 ELSE 2 * times[i] + Sum2From(times, i + 1)

\* avg_frame_time as written, but with the mean of the window for the median.
avg_frame_time2_Mean(times) ==
    IF times = <<>> THEN 2 * default_frame_time_ms * TicksPerMs
    ELSE Sum2From(times, 1) \div Len(times)

\* avg_frame_time (render.rs:619-633), doubled so that the mean of the two
\* middle samples stays a whole number of ticks.
avg_frame_time2(times) ==
    LET mid == Len(times) \div 2
    IN  IF times = <<>> THEN 2 * default_frame_time_ms * TicksPerMs
        ELSE IF Len(times) % 2 = 0 THEN Sorted(times, mid) + Sorted(times, mid + 1)
        ELSE 2 * Sorted(times, mid + 1)

\* current_fps < target_fps * pct/100 and current_fps > target_fps * pct/100,
\* with current_fps = 1.0 / avg_frame_time (default_fps when that is not
\* positive), compared as exact fractions.
fps_below(avg2, pct) ==
    IF avg2 > 0 THEN 2 * TicksPerSec * 100 < target_fps * pct * avg2
    ELSE default_fps * 100 < target_fps * pct

fps_above(avg2, pct) ==
    IF avg2 > 0 THEN 2 * TicksPerSec * 100 > target_fps * pct * avg2
    ELSE default_fps * 100 > target_fps * pct

\* The adjustment as written, but without .max(0.2) and .min(1.0).
adjust_quality_NoClamp(q, avg2) ==
    IF fps_below(avg2, very_low_pct)
    THEN [branch |-> "very_low", raw |-> scale(q, very_low_scale),
          factor |-> scale(q, very_low_scale)]
    ELSE IF fps_below(avg2, low_pct)
    THEN [branch |-> "low", raw |-> scale(q, low_scale),
          factor |-> scale(q, low_scale)]
    ELSE IF fps_above(avg2, very_good_pct) /\ q < QualityOne
    THEN [branch |-> "very_good", raw |-> scale(q, very_good_scale),
          factor |-> scale(q, very_good_scale)]
    ELSE IF fps_above(avg2, good_pct) /\ q < QualityOne
    THEN [branch |-> "good", raw |-> scale(q, good_scale),
          factor |-> scale(q, good_scale)]
    ELSE [branch |-> "keep", raw |-> q, factor |-> q]

\* The if / else-if chain of render.rs:653-681: the branch taken, the product
\* before the clamp, and the new current_quality_factor.
adjust_quality(q, avg2) ==
    IF fps_below(avg2, very_low_pct)
    THEN [branch |-> "very_low", raw |-> scale(q, very_low_scale),
          factor |-> Max(scale(q, very_low_scale), QualityFloor)]
    ELSE IF fps_below(avg2, low_pct)
    THEN [branch |-> "low", raw |-> scale(q, low_scale),
          factor |-> Max(scale(q, low_scale), QualityFloor)]
    ELSE IF fps_above(avg2, very_good_pct) /\ q < QualityOne
    THEN [branch |-> "very_good", raw |-> scale(q, very_good_scale),
          factor |-> Min(scale(q, very_good_scale), QualityOne)]
    ELSE IF fps_above(avg2, good_pct) /\ q < QualityOne
    THEN [branch |-> "good", raw |-> scale(q, good_scale),
          factor |-> Min(scale(q, good_scale), QualityOne)]
    ELSE [branch |-> "keep", raw |-> q, factor |-> q]

\* What an update_performance_metrics call measured and did: branch is "none"
\* when the call made no adjustment.
Measured(ft, branch, raw) == [frame_time |-> ft, branch |-> branch, raw |-> raw]

\* update_performance_metrics, which render() calls first on every call, with
\* frame_time = ft.
UpdatePerformanceMetrics(ft) ==
    \E times \in {IF accepted(ft) THEN push_frame_time(frame_times, ft)
                  ELSE frame_times} :
      /\ frame_times' = times
      /\ IF adaptive_resolution /\ frames_since_quality_adjust + 1 >= adjust_interval
         THEN \E a \in {adjust_quality(current_quality_factor, avg_frame_time2(times))} :
                /\ frames_since_quality_adjust' = 0
                /\ current_quality_factor' = a.factor
                /\ metrics' = Measured(ft, a.branch, a.raw)
         ELSE /\ frames_since_quality_adjust' = frames_since_quality_adjust + 1
              /\ UNCHANGED current_quality_factor
              /\ metrics' = Measured(ft, "none", current_quality_factor)
      /\ UNCHANGED adaptive_resolution
      /\ UNCHANGED <<bufVars, ret, threadVars, workerVars, renderVars, blockVars, rz,
                   gpuVars, fn_call, player>>

\* The time between two render() calls is the machine's load: it changes only
\* at the start of an adjustment period and LoadHold calls into it.
LoadCanChange ==
    \/ metrics.frame_time = 0
    \/ frames_since_quality_adjust % LoadHold = 0

RenderTick ==
    \E ft \in FrameTimes :
        /\ frames_since_quality_adjust < MaxUnadjusted
        /\ LoadCanChange \/ ft = metrics.frame_time
        /\ UpdatePerformanceMetrics(ft)

\* ----------------------------------------------------------- render_blocks

\* An RGBA pixel is <<r, g, b, a>>.  The frames of the model are painted with
\* a transparent pixel, an opaque white one and the half-transparent pixel of
\* test_simd_blend_alpha_equivalence.
Transparent == <<0, 0, 0, 0>>
OpaqueWhite == <<255, 255, 255, 255>>
HalfBlue == <<100, 150, 200, 128>>
Pixels == {Transparent, OpaqueWhite, HalfBlue}

\* The widths of the frames of the model: a single column, and two columns so
\* that one can differ from the other.
ImageWidths == {1, 2}

\* An image: its size and its pixels, px[<<x, y>>] with x and y from 0.
Image(w, h, px) == [w |-> w, h |-> h, px |-> px]
Blank(w, h) == Image(w, h, [c \in (0..(w - 1)) \X (0..(h - 1)) |-> Transparent])

\* The terminals and offsets of the model: an ordinary terminal, a one-cell
\* terminal that clips the frame, an offset inside the terminal, and an offset
\* beyond the terminal's width and twice its height.
Terminals ==
    {[w |-> 80, h |-> 24, x |-> 0, y |-> 0],
     [w |-> 1, h |-> 1, x |-> 0, y |-> 0],
     [w |-> 2, h |-> 1, x |-> 1, y |-> 1],
     [w |-> 2, h |-> 1, x |-> 3, y |-> 3]}

\* a - b in usize: a panic where overflow is checked, a wrap where it is not.
\* The wrapped value exceeds every image size, so min(size, wrapped) = size.
usize_sub(a, b, checks) ==
    IF a >= b THEN [panic |-> FALSE, wrapped |-> FALSE, value |-> a - b]
    ELSE [panic |-> checks, wrapped |-> TRUE, value |-> 0]

\* visible_width and visible_height (render.rs:1101-1103).
visible_area(img, t, checks) ==
    LET dw == usize_sub(t.w, t.x, checks)
        dh == usize_sub(t.h * 2, t.y, checks)
    IN  [panic |-> dw.panic \/ dh.panic,
         width |-> IF dw.wrapped THEN img.w ELSE Min(img.w, dw.value),
         height |-> ((IF dh.wrapped THEN img.h ELSE Min(img.h, dh.value)) + 1) \div 2]

\* The pixels of cell (x, y): the top one, and the bottom one as the row scan
\* and as the composition see a bottom row beyond the image.
top_pixel(img, x, y) == img.px[<<x, 2 * y>>]
bottom_alpha(img, x, y) ==
    IF 2 * y + 1 < img.h THEN img.px[<<x, 2 * y + 1>>][4] ELSE 0
bottom_pixel(img, x, y) ==
    IF 2 * y + 1 < img.h THEN img.px[<<x, 2 * y + 1>>] ELSE <<0, 0, 0, 255>>

\* The quick scan of a row (render.rs:1140-1157).
all_transparent(img, y, vw) ==
    \A x \in 0..(vw - 1) : top_pixel(img, x, y)[4] = 0 /\ bottom_alpha(img, x, y) = 0

\* ((c as u16 * a as u16) + 127) >> 8, in u16.
blend_channel(c, a) ==
    ((((c * a) % 65536) + blend_round) % 65536) \div (2 ^ blend_shift)

\* The effective colour of a pixel (render.rs:1202-1208).
blend(p) == <<blend_channel(p[1], p[4]), blend_channel(p[2], p[4]),
              blend_channel(p[3], p[4])>>

InvalidColor == <<invalid_color, invalid_color, invalid_color>>

\* A cell as written to the output: the column (-1 for the single space of a
\* row skipped as transparent), the character, the colour code before it, and
\* the colours it is drawn in.
Cell(x, ch, code, fg, bg) == [x |-> x, ch |-> ch, code |-> code, fg |-> fg, bg |-> bg]

\* The composition of row y from column x on (render.rs:1167-1242), with the
\* colour caches of the current chunk.
RECURSIVE ComposeFrom(_, _, _, _, _, _, _)
ComposeFrom(img, y, x, vw, last_fg, last_bg, cells) ==
    IF x >= vw THEN cells
    ELSE LET fresh == x % CHUNK_SIZE = 0
             lfg == IF fresh THEN InvalidColor ELSE last_fg
             lbg == IF fresh THEN InvalidColor ELSE last_bg
             top == top_pixel(img, x, y)
             bot == bottom_pixel(img, x, y)
             fg == blend(top)
             bg == blend(bot)
         IN  IF top[4] = 0 /\ bot[4] = 0
             THEN ComposeFrom(img, y, x + 1, vw, InvalidColor, InvalidColor,
                      Append(cells,
                          Cell(x, "space",
                               IF lfg[1] # invalid_color \/ lbg[1] # invalid_color
                               THEN "reset" ELSE "none",
                               InvalidColor, InvalidColor)))
             ELSE ComposeFrom(img, y, x + 1, vw,
                      IF fg # lfg THEN fg ELSE lfg,
                      IF bg # lbg THEN bg ELSE lbg,
                      Append(cells,
                          Cell(x, "block",
                               IF fg # lfg /\ bg # lbg THEN "both"
                               ELSE IF fg # lfg THEN "fg"
                               ELSE IF bg # lbg THEN "bg" ELSE "none",
                               fg, bg)))

\* What a row of the output holds: the cursor move and its cells.
render_row(img, y, vw) ==
    IF all_transparent(img, y, vw)
    THEN [y |-> y, cells |-> <<Cell(-1, "space", "none", InvalidColor, InvalidColor)>>]
    ELSE [y |-> y, cells |-> ComposeFrom(img, y, 0, vw, InvalidColor, InvalidColor, <<>>)]

\* The batched blend that render/tests.rs:233 calls; render.rs does not define
\* it.  It is the blend formula of the specification on opaque black,
\* out = (fg*alpha + bg*(255-alpha)) / 255, for the top and the bottom pixel.
simd_blend_channel(c, a) == (c * a + 0 * (255 - a)) \div 255
simd_blend_alpha(top, bot) ==
    <<<<simd_blend_channel(top[1], top[4]), simd_blend_channel(top[2], top[4]),
        simd_blend_channel(top[3], top[4])>>,
      <<simd_blend_channel(bot[1], bot[4]), simd_blend_channel(bot[2], bot[4]),
        simd_blend_channel(bot[3], bot[4])>>>>

\* The effective colour of one channel is computed (render.rs:1202-1208).
BlendChannel ==
    /\ fn_call.fn = "blend_channel" /\ ~fn_call.done
    /\ fn_call' = [fn_call EXCEPT !.done = TRUE,
                                  !.out = blend_channel(fn_call.c, fn_call.a)]
    /\ UNCHANGED <<bufVars, ret, threadVars, workerVars, renderVars,
                   qualityVars, blockVars, rz, gpuVars, player>>

\* str::contains on strings held as sequences of characters.
contains(s, pat) ==
    \E i \in 0..(Len(s) - Len(pat)) : SubSeq(s, i + 1, i + Len(pat)) = pat

\* The values of TERM tried; an unset TERM reads as the empty string
\* (render.rs:226).
TermUnset == <<>>
TermXterm == <<"x", "t", "e", "r", "m", "-", "2", "5", "6", "c", "o", "l", "o", "r">>
TermMlterm == <<"m", "l", "t", "e", "r", "m">>
TermMlterm256 == <<"m", "l", "t", "e", "r", "m", "-", "2", "5", "6", "c", "o", "l", "o", "r">>
TermYaft == <<"y", "a", "f", "t", "-", "2", "5", "6", "c", "o", "l", "o", "r">>
TermXtermSixel == <<"x", "t", "e", "r", "m", "-", "s", "i", "x", "e", "l">>
TermIterm == <<"i", "t", "e", "r", "m", "2">>
TermKitty == <<"x", "t", "e", "r", "m", "-", "k", "i", "t", "t", "y">>
Terms == {TermUnset, TermXterm, TermMlterm, TermMlterm256, TermYaft, TermXtermSixel,
          TermIterm, TermKitty}

\* What the terminal sends back to the Primary Device Attributes query within
\* the 100 ms of the read loop (render.rs:273-291): nothing, attribute lists
\* with and without 4, and bytes that are no attribute list.
DaSilent == <<>>
DaSixelInside == <<"ESC", "[", "?", "6", "2", ";", "4", ";", "6", "c">>
DaSixelLast == <<"ESC", "[", "?", "6", "2", ";", "4", "c">>
DaNoSixel == <<"ESC", "[", "?", "1", ";", "2", "c">>
DaNoList == <<";", "4", ";", "c">>
DaResponses == {DaSilent, DaSixelInside, DaSixelLast, DaNoSixel, DaNoList}
\* The step of the probe that fails, if any, and the bytes read.
DaProbes ==
    [err : {"none"}, response : DaResponses]
        \cup [err : {"enable_raw_mode", "flush", "disable_raw_mode"}, response : {DaSilent}]

\* The outcomes of the live test of the Kitty protocol (render.rs:703-736): the
\* write to stdout succeeds, the temporary file cannot be saved, the write
\* fails, or the closure panics.
KittyTests == {"ok", "save_err", "write_err", "panic"}

\* check_kitty_support (render.rs:689-750)
check_kitty_support(kitty_window_id, TERM, kitty_test) ==
    IF ~kitty_window_id /\ ~contains(TERM, <<"k", "i", "t", "t", "y">>)
    THEN FALSE
    ELSE kitty_test = "ok"

\* check_sixel_support (render.rs:251-300): an error of the terminal calls, or
\* whether the response holds "ESC[?" and ";4;".
check_sixel_support(da) ==
    IF da.err # "none"
    THEN [ok |-> FALSE, val |-> FALSE]
    ELSE [ok |-> TRUE,
          val |-> contains(da.response, <<"ESC", "[", "?">>) /\ contains(da.response, <<";", "4", ";">>)]

\* A failed live test does not end the detection.
detect_best_method_FallThrough(kitty_window_id, iterm_session_id, TERM, kitty_test, da) ==
    IF kitty_window_id /\ check_kitty_support(kitty_window_id, TERM, kitty_test)
    THEN "Kitty"
    ELSE IF iterm_session_id
    THEN "ITerm"
    ELSE IF contains(TERM, <<"s", "i", "x", "e", "l">>) \/ TERM = TermMlterm \/ TERM = TermYaft
    THEN "Sixel"
    ELSE IF check_sixel_support(da) = [ok |-> TRUE, val |-> TRUE]
    THEN "Sixel"
    ELSE IF contains(TERM, <<"i", "t", "e", "r", "m">>)
    THEN "ITerm"
    ELSE "Blocks"

\* detect_best_method (render.rs:204-248)
detect_best_method(kitty_window_id, iterm_session_id, TERM, kitty_test, da) ==
    IF kitty_window_id
    THEN IF check_kitty_support(kitty_window_id, TERM, kitty_test)
         THEN "Kitty"
         ELSE "Blocks"
    ELSE IF iterm_session_id
    THEN "ITerm"
    ELSE IF contains(TERM, <<"s", "i", "x", "e", "l">>) \/ TERM = TermMlterm \/ TERM = TermYaft
    THEN "Sixel"
    ELSE IF check_sixel_support(da) = [ok |-> TRUE, val |-> TRUE]
    THEN "Sixel"
    ELSE IF contains(TERM, <<"i", "t", "e", "r", "m">>)
    THEN "ITerm"
    ELSE "Blocks"

\* The method for RenderMethod::Auto is detected (render.rs:133-134).
DetectBestMethod ==
    /\ fn_call.fn = "detect_best_method" /\ ~fn_call.done
    /\ fn_call' = [fn_call EXCEPT
                     !.done = TRUE,
                     !.out = detect_best_method(fn_call.kitty_window_id,
                                                fn_call.iterm_session_id, fn_call.term,
                                                fn_call.kitty_test, fn_call.da)]
    /\ UNCHANGED <<bufVars, ret, threadVars, workerVars, renderVars,
                   qualityVars, blockVars, rz, gpuVars, player>>

\* The fixed palette of render_sixel (render.rs:956-977), indexed from 0.
colors ==
    <<<<0, 0, 0>>, <<255, 0, 0>>, <<0, 255, 0>>, <<255, 255, 0>>,
      <<0, 0, 255>>, <<255, 0, 255>>, <<0, 255, 255>>, <<255, 255, 255>>,
      <<85, 85, 85>>, <<170, 170, 170>>,
      <<128, 0, 0>>, <<0, 128, 0>>, <<128, 128, 0>>, <<0, 0, 128>>,
      <<128, 0, 128>>, <<0, 128, 128>>>>

\* The squared RGB distance of a pixel, blended on black, to palette entry i
\* (render.rs:1067-1078).
palette_dist(pixel, i) ==
    LET r == (pixel[1] * pixel[4]) \div 255
        g == (pixel[2] * pixel[4]) \div 255
        b == (pixel[3] * pixel[4]) \div 255
        dr == r - colors[i + 1][1]
        dg == g - colors[i + 1][2]
        db == b - colors[i + 1][3]
    IN  dr * dr + dg * dg + db * db

\* closest_color_idx (render.rs:1057-1089): entry 0 for a fully transparent
\* pixel, else the first entry at the least distance.
closest_color_idx(pixel) ==
    IF pixel[4] = 0
    THEN 0
    ELSE CHOOSE i \in 0..(Len(colors) - 1) :
            \A j \in 0..(Len(colors) - 1) :
                \/ palette_dist(pixel, j) > palette_dist(pixel, i)
                \/ palette_dist(pixel, j) = palette_dist(pixel, i) /\ j >= i

\* The pixels tried: fully transparent, opaque red, white at half alpha and an
\* opaque colour next to the last palette entry.
SixelPixels == {<<255, 0, 0, 0>>, <<255, 0, 0, 255>>, <<255, 255, 255, 128>>,
                <<0, 130, 130, 255>>}
\* closest_color_idx of each of them, computed once.
palette_index == [pixel \in SixelPixels |-> closest_color_idx(pixel)]

\* The bytes of "{}" for an unsigned number.
RECURSIVE decimal(_)
decimal(n) ==
    IF n < 10 THEN <<48 + n>> ELSE decimal(n \div 10) \o <<48 + (n % 10)>>

\* "#{};2;{};{};{}" for the palette entries from i on (render.rs:980-986).
RECURSIVE sixel_palette(_)
sixel_palette(i) ==
    IF i >= Len(colors)
    THEN <<>>
    ELSE <<35>> \o decimal(i) \o <<59, 50, 59>> \o decimal(colors[i + 1][1]) \o <<59>>
            \o decimal(colors[i + 1][2]) \o <<59>> \o decimal(colors[i + 1][3])
            \o sixel_palette(i + 1)

\* The six-bit pattern of the column x of the band y_block for the colour
\* (render.rs:1004-1019), from bit on.
RECURSIVE sixel_pattern(_, _, _, _, _)
sixel_pattern(img, y_block, x, color_idx, bit) ==
    IF bit >= 6
    THEN 0
    ELSE (IF y_block * 6 + bit < img.h
             /\ palette_index[img.px[<<x, y_block * 6 + bit>>]] = color_idx
          THEN 2 ^ bit
          ELSE 0) + sixel_pattern(img, y_block, x, color_idx, bit + 1)

\* The bytes of one colour in one band, from column x on (render.rs:1001-1039).
\* has_pixels is raised inside the bit loop as soon as a pixel of the colour is
\* met, before the test that guards the write of the selector.
RECURSIVE sixel_color_row(_, _, _, _, _)
sixel_color_row(img, y_block, color_idx, x, has_pixels) ==
    IF x >= img.w
    THEN IF has_pixels THEN <<36>> ELSE <<>>
    ELSE LET pattern == sixel_pattern(img, y_block, x, color_idx, 0)
             has_pixels_after_bits == has_pixels \/ pattern > 0
         IN  (IF pattern > 0
              THEN (IF ~has_pixels_after_bits THEN <<35>> \o decimal(color_idx) ELSE <<>>)
                      \o <<63 + pattern>>
              ELSE <<>>)
                \o sixel_color_row(img, y_block, color_idx, x + 1, has_pixels_after_bits)

\* The bytes of one band, from the colour color_idx on, ended by '-'
\* (render.rs:997-1043).
RECURSIVE sixel_band(_, _, _)
sixel_band(img, y_block, color_idx) ==
    IF color_idx >= Len(colors)
    THEN <<45>>
    ELSE sixel_color_row(img, y_block, color_idx, 0, FALSE)
            \o sixel_band(img, y_block, color_idx + 1)

\* The bands from y_block on; rows is (height + 5) / 6 (render.rs:993-997).
RECURSIVE sixel_bands(_, _)
sixel_bands(img, y_block) ==
    IF y_block >= (img.h + 5) \div 6
    THEN <<>>
    ELSE sixel_band(img, y_block, 0) \o sixel_bands(img, y_block + 1)

\* sixel_data of render_sixel (render.rs:949-1046): ESC P q, the palette, the
\* bands, ESC \.
sixel_data(img) ==
    <<27, 80, 113>> \o sixel_palette(0) \o sixel_bands(img, 0) \o <<27, 92>>

\* The images tried: one column of MaxSixelHeight rows and MaxSixelWidth
\* columns of two rows.
SixelSizes == {<<1, MaxSixelHeight>>, <<MaxSixelWidth, 2>>}
SixelImages ==
    UNION {[w : {s[1]}, h : {s[2]},
            px : [(0..(s[1] - 1)) \X (0..(s[2] - 1)) -> SixelPixels]] : s \in SixelSizes}

\* render_sixel builds the bytes it writes for a frame (render.rs:928-1046).
RenderSixel ==
    /\ fn_call.fn = "render_sixel" /\ ~fn_call.done
    /\ fn_call' = [fn_call EXCEPT !.done = TRUE, !.out = sixel_data(fn_call.img)]
    /\ UNCHANGED <<bufVars, ret, threadVars, workerVars, renderVars,
                   qualityVars, blockVars, rz, gpuVars, player>>

\* A render_blocks call: its result, the rows it wrote, and whether the frame
\* was bit-identical to the frame of the call before, which had succeeded.
BlocksDone(result, rows, repeat) == [result |-> result, rows |-> rows, repeat |-> repeat]

\* render_blocks(frame): stdout is what the writes to stdout do.
render_blocks(img, t, checks, stdout, repeat) ==
    LET v == visible_area(img, t, checks)
    IN  IF v.panic THEN BlocksDone("panic", <<>>, repeat)
        ELSE IF v.width = 0 \/ v.height = 0 THEN BlocksDone("ok", <<>>, repeat)
        ELSE IF stdout = "err" THEN BlocksDone("err", <<>>, repeat)
        ELSE BlocksDone("ok", [i \in 1..v.height |-> render_row(img, i - 1, v.width)],
                        repeat)

\* render_blocks is called with the frame img.
RenderBlocks(img, stdout) ==
    /\ image' = img
    /\ blocks_out' = render_blocks(img, term, overflow_checks, stdout,
                                   img = image /\ blocks_out.result = "ok")
    /\ UNCHANGED <<term, overflow_checks>>
    /\ UNCHANGED <<bufVars, ret, threadVars, workerVars, renderVars, qualityVars, rz,
                   gpuVars, fn_call, player>>

\* The next frame of the video: the last frame again, or the last frame with
\* one pixel changed.
NextImages ==
    {image} \cup
    {Image(image.w, image.h, [image.px EXCEPT ![c] = p]) :
        c \in DOMAIN image.px, p \in Pixels}

RenderBlocksCall ==
    \E img \in NextImages, stdout \in {"ok", "err"} : RenderBlocks(img, stdout)

\* -------------------------------------------------------- VideoFrame::resize

\* f32 arithmetic.  A positive f32 is [m, e] with 2^23 <= m < 2^24, standing
\* for m * 2^e; every operation rounds to nearest, ties to even, as the
\* hardware does.  The sizes of the model are small enough for no product
\* below to pass 2^31.
F32Min == 2 ^ (f32_bits - 1)
F32Lim == 2 ^ f32_bits

\* Round q (with q + num/den the exact significand) and renormalise.
f32_round(q, num, den, e) ==
    LET up == 2 * num > den \/ (2 * num = den /\ q % 2 = 1)
        r == IF up THEN q + 1 ELSE q
    IN  IF r = F32Lim THEN [m |-> F32Min, e |-> e + 1] ELSE [m |-> r, e |-> e]

\* Long division: (q + r/d) * 2^e is the quotient; shift until q has 24 bits.
RECURSIVE f32_long_div(_, _, _, _)
f32_long_div(q, r, d, e) ==
    IF q >= F32Min THEN f32_round(q, r, d, e)
    ELSE f32_long_div(2 * q + ((2 * r) \div d), (2 * r) % d, d, e - 1)

\* n as f32 / d as f32 for whole numbers 0 < n, d < 2^24.
f32_div_int(n, d) == f32_long_div(n \div d, n % d, d, 0)

\* n as f32 / x for a whole number n and an f32 x.
f32_div(n, x) ==
    LET q == f32_div_int(n, x.m) IN [m |-> q.m, e |-> q.e - x.e]

\* The number of bits by which p exceeds 24 bits.
RECURSIVE f32_excess(_)
f32_excess(p) == IF p < F32Lim THEN 0 ELSE 1 + f32_excess(p \div 2)

\* n as f32 * x for a whole number n and an f32 x.
f32_mul(n, x) ==
    LET p == n * x.m
        k == f32_excess(p)
    IN  f32_round(p \div (2 ^ k), p % (2 ^ k), 2 ^ k, x.e + k)

\* a > b on positive f32 values.
f32_gt(a, b) == a.e > b.e \/ (a.e = b.e /\ a.m > b.m)

\* x as u32: truncation toward zero.
f32_as_u32(x) ==
    IF x.e >= 0 THEN x.m * (2 ^ x.e)
    ELSE IF -x.e >= f32_bits THEN 0
    ELSE x.m \div (2 ^ (-x.e))

\* A VideoFrame, as far as resize goes: its size and its timing.
Frame(w, h, ts, dur) == [w |-> w, h |-> h, ts |-> ts, dur |-> dur]

\* (new_width, new_height) with maintain_aspect_ratio (video.rs:70-83).
aspect_size(w, h, tw, th) ==
    LET ratio == f32_div_int(w, h)
    IN  IF f32_gt(f32_div_int(tw, th), ratio)
        THEN <<f32_as_u32(f32_mul(th, ratio)), th>>
        ELSE <<tw, f32_as_u32(f32_div(tw, ratio))>>

\* resize: the returned frame.  resize_exact gives an image of exactly the
\* size asked for, and VideoFrame::new takes width and height from the image.
\* (The filter chosen at video.rs:89-98 decides the pixels, not the size.)
resize(f, tw, th, maintain_aspect_ratio) ==
    IF f.w = tw /\ f.h = th THEN f
    ELSE LET size == IF maintain_aspect_ratio THEN aspect_size(f.w, f.h, tw, th)
                     ELSE <<tw, th>>
         IN  Frame(size[1], size[2], f.ts, f.dur)

\* frame.resize(target_width, target_height, maintain_aspect_ratio) returns.
Resize ==
    /\ ~rz.done
    /\ rz' = [rz EXCEPT !.done = TRUE,
                        !.out = resize(rz.frame, rz.tw, rz.th, rz.keep)]
    /\ UNCHANGED <<bufVars, ret, threadVars, workerVars, renderVars,
                   qualityVars, blockVars, gpuVars, fn_call, player>>

\* ------------------------------------------- GpuProcessor::process_frame

\* The input frames and the targets of the GPU branch.  A target is at least
\* 32 x 32 (render.rs:314); a row of 32 or 65 pixels is padded to the 256-byte
\* alignment, a row of 64 pixels is not.
GpuFrames == {<<64, 32>>, <<640, 480>>}
GpuTargets == {<<32, 32>>, <<64, 32>>, <<64, 33>>, <<65, 33>>}

\* A Vec<u8> is a sequence of runs: n bytes read from the mapped buffer at
\* offset from, or n zero bytes.
Chunk(src, from, n) == [src |-> src, from |-> from, n |-> n]
\* vec![0; n]
Zeros(n) == <<Chunk("zero", 0, n)>>

RECURSIVE VecLen(_)
VecLen(v) == IF v = <<>> THEN 0 ELSE Head(v).n + VecLen(Tail(v))

\* The row layout of the readback buffer (gpu.rs:301-307).
bytes_per_row(tw) == bytes_per_pixel * tw
padding(tw) == (align - (bytes_per_row(tw) % align)) % align
padded_bytes_per_row(tw) == bytes_per_row(tw) + padding(tw)
output_buffer_size(tw, th) == padded_bytes_per_row(tw) * th

\* A cached texture (gpu.rs:182-225, 252-296): the one held when its
\* dimensions are those asked for, a new one otherwise.  A resource is named
\* by the call that created it.
cached_texture(held, dims, call) ==
    IF held # None /\ held[1].dims = dims
    THEN held
    ELSE Some([dims |-> dims, id |-> call])

\* The cached readback buffer (gpu.rs:309-333); it keeps the size it was
\* created with.
cached_buffer(held, t, call) ==
    IF held # None /\ held[1].dims = t
    THEN held
    ELSE Some([dims |-> t, size |-> output_buffer_size(t[1], t[2]), id |-> call])

\* The bind group is reused whatever the input dimensions are.
cached_bind_group_OutputKeyed(held, f, t, input, output, call) ==
    IF held # None /\ held[1].key[2] = t
    THEN held
    ELSE Some([key |-> <<f, t>>, input |-> input[1].id, output |-> output[1].id,
               id |-> call])

\* The cached bind group (gpu.rs:360-416): the one held when all four
\* dimensions match, otherwise a new one over the views of this call's input
\* and output textures.
cached_bind_group(held, f, t, input, output, call) ==
    IF held # None /\ held[1].key = <<f, t>>
    THEN held
    ELSE Some([key |-> <<f, t>>, input |-> input[1].id, output |-> output[1].id,
               id |-> call])

\* The cached resources after the get-or-create steps (gpu.rs:182-416) of the
\* call of this number on a frame of dimensions f for the target t.
get_or_create(g, f, t) ==
    LET call == g.calls + 1
        input == cached_texture(g.input_texture, f, call)
        output == cached_texture(g.output_texture, t, call)
    IN  [g EXCEPT !.calls = call,
                  !.frame = f,
                  !.input_texture = input,
                  !.output_texture = output,
                  !.output_buffer = cached_buffer(g.output_buffer, t, call),
                  !.uniform_buffer = TRUE,
                  !.bind_group = cached_bind_group(g.bind_group, f, t, input, output, call)]

\* The row loop (gpu.rs:548-561), from row on: the pixel bytes of each row of
\* a mapped buffer of len bytes, or zeros for a row the buffer does not hold.
RECURSIVE strip_rows(_, _, _, _, _)
strip_rows(row, tw, th, len, result) ==
    IF row >= th THEN result
    ELSE LET row_start == row * padded_bytes_per_row(tw)
             row_end == row_start + bytes_per_row(tw)
         IN  strip_rows(row + 1, tw, th, len,
                 Append(result,
                        IF row_end <= len
                        THEN Chunk("gpu", row_start, bytes_per_row(tw))
                        ELSE Chunk("zero", 0, bytes_per_row(tw))))

\* The readback as written, but handing the mapped buffer back as it is.
readback_Unstripped(tw, th, poll, mapped, len) ==
    IF poll # "ok"
    THEN [path |-> "poll_failed", data |-> Zeros(bytes_per_pixel * tw * th)]
    ELSE IF mapped = Some("ok")
    THEN [path |-> IF padding(tw) = 0 THEN "direct" ELSE "stripped",
          data |-> <<Chunk("gpu", 0, len)>>]
    ELSE [path |-> "map_failed", data |-> Zeros(bytes_per_pixel * tw * th)]

\* What process_frame returns (gpu.rs:511-573), given the result of the poll,
\* what the map callback sent, and the length of the mapped buffer.
readback(tw, th, poll, mapped, len) ==
    IF poll # "ok"
    THEN [path |-> "poll_failed", data |-> Zeros(bytes_per_pixel * tw * th)]
    ELSE IF mapped = Some("ok")
    THEN IF padding(tw) = 0
         THEN [path |-> "direct", data |-> <<Chunk("gpu", 0, len)>>]
         ELSE IF len < padded_bytes_per_row(tw) * th
         THEN [path |-> "short_buffer", data |-> Zeros(bytes_per_pixel * tw * th)]
         ELSE [path |-> "stripped", data |-> strip_rows(0, tw, th, len, <<>>)]
    ELSE [path |-> "map_failed", data |-> Zeros(bytes_per_pixel * tw * th)]

\* How a render() call got its resized frame: via is "gpu" when process_frame
\* returned and resize_from_data took its bytes, "panic" when the bytes were
\* too few for RgbaImage::from_raw (video.rs:108-109), and "cpu_busy" or
\* "cpu_absent" for the early returns through frame.resize and render_blocks.
GpuOut(r, via, t, path, data) ==
    [renderer |-> r, via |-> via, tw |-> t[1], th |-> t[2],
     path |-> path, data |-> data]

\* queue.submit (gpu.rs:480) refuses work that writes to a buffer which is
\* mapped or has a map request pending, and wgpu reports that by a panic, which
\* render() catches (render.rs:355-384).  A buffer created in this call is not
\* mapped.
submit_rejected(g, t) ==
    /\ g.output_buffer # None
    /\ g.output_buffer[1].dims = t
    /\ g.map_state # "unmapped"

\* render() by renderer r reaches the GPU branch (render.rs:318-353) with a
\* frame of size f and the target t.  try_lock_for gives up after 100 ms when
\* another thread holds the singleton; otherwise process_frame runs up to its
\* poll (gpu.rs:178-488): the work is submitted and the map is requested.
RenderGpuBranch(r, f, t) ==
    /\ effective_method[r] # "Blocks" /\ enable_gpu[r]
    /\ f # t
    /\ t[1] >= min_gpu_dim /\ t[2] >= min_gpu_dim
    /\ GPU_PROCESSOR.lock # r
    /\ IF GPU_PROCESSOR.lock # 0
       THEN /\ gpu_out' = GpuOut(r, "cpu_busy", t, "none", <<>>)
            /\ UNCHANGED GPU_PROCESSOR
       ELSE IF ~GPU_PROCESSOR.available
       THEN /\ gpu_out' = GpuOut(r, "cpu_absent", t, "none", <<>>)
            /\ UNCHANGED GPU_PROCESSOR
       ELSE /\ GPU_PROCESSOR.calls < MaxGpuCalls
            /\ IF submit_rejected(GPU_PROCESSOR, t)
               THEN /\ GPU_PROCESSOR' = [get_or_create(GPU_PROCESSOR, f, t) EXCEPT
                                           !.target = t]
                    /\ gpu_out' = GpuOut(r, "cpu_panic", t, "none", <<>>)
               ELSE /\ GPU_PROCESSOR' = [get_or_create(GPU_PROCESSOR, f, t) EXCEPT
                                           !.lock = r, !.pc = "poll", !.target = t,
                                           !.device = "pending", !.mapped = None,
                                           !.map_state = "pending"]
                    /\ UNCHANGED gpu_out
    /\ UNCHANGED <<bufVars, ret, threadVars, workerVars, renderVars,
                   qualityVars, blockVars, rz, fn_call, player>>

\* The GPU finishes the submitted work.  Nothing obliges it to.
DeviceCompletes ==
    /\ GPU_PROCESSOR.device = "pending"
    /\ GPU_PROCESSOR' = [GPU_PROCESSOR EXCEPT !.device = "complete"]
    /\ UNCHANGED gpu_out
    /\ UNCHANGED <<bufVars, ret, threadVars, workerVars, renderVars,
                   qualityVars, blockVars, rz, fn_call, player>>

\* The mapping of the readback buffer when process_frame returns: every return
\* after the receive calls unmap() (gpu.rs:530, 544, 564, 571); the return after
\* a failed poll (gpu.rs:511-514) does not.
map_state_at_return(path, state) ==
    IF path = "poll_failed" THEN state ELSE "unmapped"

\* process_frame returns rb to render(), which builds the resized frame from
\* it (render.rs:373-377) and drops the guard at the end of the branch.
ProcessFrameReturns(rb) ==
    /\ GPU_PROCESSOR' = [GPU_PROCESSOR EXCEPT !.lock = 0, !.pc = "idle",
                                    !.map_state = map_state_at_return(rb.path, @)]
    /\ gpu_out' = GpuOut(GPU_PROCESSOR.lock,
                         IF VecLen(rb.data) >= bytes_per_pixel * GPU_PROCESSOR.target[1] * GPU_PROCESSOR.target[2]
                         THEN "gpu" ELSE "panic",
                         GPU_PROCESSOR.target, rb.path, rb.data)

\* The poll (gpu.rs:492-514).  device.poll(Poll) does not wait: when it
\* returns Ok it has run the map callback if the work was finished (the
\* callback sends res) and not otherwise; when it keeps failing the 1000 ms
\* timer ends the wait and process_frame returns a black buffer.
ProcessFramePoll(poll, res) ==
    /\ GPU_PROCESSOR.pc = "poll"
    /\ IF poll = "ok"
       THEN /\ GPU_PROCESSOR' = [GPU_PROCESSOR EXCEPT
                                    !.pc = "receive",
                                    !.mapped = IF GPU_PROCESSOR.device = "complete"
                                               THEN Some(res) ELSE None,
                                    !.map_state = IF GPU_PROCESSOR.device # "complete" THEN @
                                                  ELSE IF res = "ok" THEN "mapped"
                                                  ELSE "unmapped"]
            /\ UNCHANGED gpu_out
       ELSE ProcessFrameReturns(readback(GPU_PROCESSOR.target[1], GPU_PROCESSOR.target[2], poll, None,
                                         GPU_PROCESSOR.output_buffer[1].size))
    /\ UNCHANGED <<bufVars, ret, threadVars, workerVars, renderVars,
                   qualityVars, blockVars, rz, fn_call, player>>

\* block_on(receiver.receive()) (gpu.rs:517): it returns once the callback has
\* sent; the callback runs only inside a poll or a submit of this device, and
\* the thread that could make one is the thread that waits here.
ProcessFrameReceive ==
    /\ GPU_PROCESSOR.pc = "receive"
    /\ GPU_PROCESSOR.mapped # None
    /\ ProcessFrameReturns(readback(GPU_PROCESSOR.target[1], GPU_PROCESSOR.target[2], "ok", GPU_PROCESSOR.mapped,
                                    GPU_PROCESSOR.output_buffer[1].size))
    /\ UNCHANGED <<bufVars, ret, threadVars, workerVars, renderVars,
                   qualityVars, blockVars, rz, fn_call, player>>

\* ------------------------------------------------------------------- Init

\* No render() call has been made yet.
NoRender == [renderer |-> 0, frame |-> 0, method |-> "none", backend |-> "none",
             backend_result |-> "none", backend_frame |-> NoFrame,
             flag_set |-> FALSE, cleared |-> FALSE, blocks_called |-> FALSE,
             blocks_frame |-> NoFrame, blocks_result |-> "none", result |-> "none"]

InitBuffer(caps) ==
    /\ frames = <<>>
    /\ timestamp_map = EmptyMap
    /\ capacity \in caps
    /\ prefetching = FALSE
    /\ current_position = 0
    /\ prefetch_thread = FALSE
    /\ stop_prefetch = FALSE
    /\ dropped = FALSE
    /\ caller = "idle"
    /\ ret = Call("new", None, TRUE, None, 0)
    /\ wpc = "none"
    /\ frames_decoded = 0
    /\ consecutive_errors = 0
    /\ decode_log = <<>>

InitRenderIdle ==
    /\ effective_method = [r \in 1..NumRenderers |-> "Blocks"]
    /\ enable_gpu = [r \in 1..NumRenderers |-> FALSE]
    /\ LAST_METHOD = None
    /\ KITTY_FAILED = FALSE
    /\ ITERM_FAILED = FALSE
    /\ SIXEL_FAILED = FALSE
    /\ out = NoRender

\* TerminalRenderer::new (render.rs:194-197).
InitQuality(adaptive) ==
    /\ frame_times = <<>>
    /\ current_quality_factor = QualityOne
    /\ frames_since_quality_adjust = 0
    /\ adaptive_resolution \in adaptive
    /\ metrics = Measured(0, "none", QualityOne)

\* No render_blocks call has been made yet.
NoBlocks == BlocksDone("none", <<>>, FALSE)

\* A renderer about to render frames of size w x h, in any of the terminals
\* and builds.
InitBlocks(ws, hs, terms, builds) ==
    /\ \E w \in ws, h \in hs : image = Blank(w, h)
    /\ term \in terms
    /\ overflow_checks \in builds
    /\ blocks_out = NoBlocks

\* The frame sizes and targets resize is called with: the small ones, and the
\* 200x100 frame and 50x50 target of video.rs:165-193.
SourceSizes == ((1..MaxFrameDim) \X (1..MaxFrameDim)) \cup {<<200, 100>>}
TargetSizes == ((1..MaxTargetDim) \X (1..MaxTargetDim)) \cup {<<50, 50>>}

\* A resize call about to be made.
InitResize(sizes, targets, stamps) ==
    \E s \in sizes, t \in targets, ts \in stamps, keep \in BOOLEAN :
        rz = [frame |-> Frame(s[1], s[2], ts, 40 * TicksPerMs),
              tw |-> t[1], th |-> t[2], keep |-> keep,
              done |-> FALSE, out |-> Frame(0, 0, 0, 0)]

\* LocalMediaPlayer::new (local.rs:36-165): playing from 0.0, volume 50, not
\* muted, the decoder at the first frame; with an audio stream the audio
\* thread runs with its sink at 0.5 (local.rs:91), without one no thread exists.
\* last_frame_time is an Instant; the model keeps whether it was taken an even
\* or an odd number of times, which tells one reading of the clock from the next.
new_player(has_audio) ==
    [current_timestamp |-> 0, paused |-> FALSE, prefetching_active |-> FALSE,
     volume |-> 50, muted |-> FALSE, last_frame_time |-> 0,
     decoder |-> [next |-> 0, eof |-> FALSE],
     audio |-> [running |-> has_audio, chan |-> <<>>, sink |-> 50],
     last |-> [op |-> "new", ok |-> TRUE, err |-> "none"]]

\* No player in use.
InitPlayerIdle == player = new_player(FALSE)

InitResizeIdle ==
    rz = [frame |-> Frame(1, 1, 0, 40 * TicksPerMs), tw |-> 1, th |-> 1,
          keep |-> FALSE, done |-> TRUE, out |-> Frame(1, 1, 0, 40 * TicksPerMs)]

\* The GPU singleton before any render() call: unlocked, holding a processor
\* with empty caches (gpu.rs:156-168) or None (render.rs:18-33).
InitGpu(availability) ==
    /\ \E a \in availability :
         GPU_PROCESSOR = [available |-> a, lock |-> 0, pc |-> "idle", target |-> <<0, 0>>,
                device |-> "idle", mapped |-> None, calls |-> 0, frame |-> <<0, 0>>,
                map_state |-> "unmapped",
                input_texture |-> None, output_texture |-> None,
                output_buffer |-> None, uniform_buffer |-> FALSE,
                bind_group |-> None]
    /\ gpu_out = GpuOut(0, "none", <<0, 0>>, "none", <<>>)

\* No call in hand.
NoCall == [fn |-> "none", done |-> TRUE]
InitCallIdle == fn_call = NoCall

InitPixelIdle ==
    /\ InitQuality({TRUE})
    /\ InitBlocks({1}, {1}, {[w |-> 80, h |-> 24, x |-> 0, y |-> 0]}, {FALSE})
    /\ InitResizeIdle
    /\ InitGpu({FALSE})
    /\ InitPlayerIdle
    /\ InitCallIdle

Init ==
    /\ InitBuffer(0..MaxCapacity)
    /\ InitRenderIdle
    /\ InitPixelIdle

Next ==
    \/ \E ts \in Timestamps : AddFrame(ts)
    \/ NextFrame
    \/ \E ts \in Timestamps : Seek(ts)
    \/ Clear
    \/ \E ts \in QueryTimestamps : GetFrameAt(ts)
    \/ CurrentFrame

Spec == Init /\ [][Next]_vars

\* A buffer with a prefetch worker: the caller starts, stops and drops; the
\* worker thread runs on its own.
InitPrefetch ==
    /\ InitBuffer(0..MaxPrefetchCapacity)
    /\ InitRenderIdle
    /\ InitPixelIdle

WorkerStep ==
    \/ WorkerLoop
    \/ WorkerWake
    \/ \E res \in DecodeResults : WorkerDecode(res)

NextPrefetch ==
    \/ StartPrefetching
    \/ StopPrefetching
    \/ Drop
    \/ JoinReturns
    \/ WorkerStep

SpecPrefetch == InitPrefetch /\ [][NextPrefetch]_vars

\* The worker is an OS thread: it is scheduled as long as it can take a step,
\* and decode_fn is assumed to return.
FairSpecPrefetch == SpecPrefetch /\ WF_vars(WorkerStep)

\* An order on the methods, used only to list the renderers of a process once.
MethodRank(m) ==
    IF m = "Kitty" THEN 1 ELSE IF m = "ITerm" THEN 2 ELSE IF m = "Sixel" THEN 3 ELSE 4

\* Renderers constructed with any resolved method (TerminalRenderer::new never
\* leaves Auto in effective_method), in a fresh process.  render() treats all
\* renderers alike, so they are numbered in the order of their methods.
\* enable_gpu is the same for every renderer, as RenderConfig::default()
\* derives it from the environment.
InitRender ==
    /\ InitBuffer({0})
    /\ effective_method \in [1..NumRenderers -> Methods]
    /\ \A r \in 1..(NumRenderers - 1) :
          MethodRank(effective_method[r]) <= MethodRank(effective_method[r + 1])
    /\ \E g \in BOOLEAN : enable_gpu = [r \in 1..NumRenderers |-> g]
    /\ LAST_METHOD = None
    /\ KITTY_FAILED = FALSE
    /\ ITERM_FAILED = FALSE
    /\ SIXEL_FAILED = FALSE
    /\ out = NoRender
    /\ InitPixelIdle

NextRender == RenderCall

SpecRender == InitRender /\ [][NextRender]_vars

\* A renderer's quality controller over a sequence of render() calls, with
\* adaptive_resolution set either way in its config.
InitQualitySpec ==
    /\ InitBuffer({0})
    /\ InitRenderIdle
    /\ InitQuality(BOOLEAN)
    /\ InitBlocks({1}, {1}, {[w |-> 80, h |-> 24, x |-> 0, y |-> 0]}, {FALSE})
    /\ InitResizeIdle
    /\ InitGpu({FALSE})
    /\ InitPlayerIdle
    /\ InitCallIdle

NextQuality == RenderTick

SpecQuality == InitQualitySpec /\ [][NextQuality]_vars

\* The Block Renderer over a sequence of frames.
InitBlocksSpec ==
    /\ InitBuffer({0})
    /\ InitRenderIdle
    /\ InitQuality({TRUE})
    /\ InitBlocks(ImageWidths, 1..MaxImageHeight, Terminals, BOOLEAN)
    /\ InitResizeIdle
    /\ InitGpu({FALSE})
    /\ InitPlayerIdle
    /\ InitCallIdle

NextBlocks == RenderBlocksCall

SpecBlocks == InitBlocksSpec /\ [][NextBlocks]_vars

\* VideoFrame::resize on every frame size and target of the model.
InitResizeSpec ==
    /\ InitBuffer({0})
    /\ InitRenderIdle
    /\ InitQuality({TRUE})
    /\ InitBlocks({1}, {1}, {[w |-> 80, h |-> 24, x |-> 0, y |-> 0]}, {FALSE})
    /\ InitResize(SourceSizes, TargetSizes, {0, TicksPerSec})
    /\ InitGpu({FALSE})
    /\ InitPlayerIdle
    /\ InitCallIdle

NextResize == Resize

SpecResize == InitResizeSpec /\ [][NextResize]_vars

\* Renderers of graphical protocols with GPU acceleration enabled, sharing the
\* GPU singleton.
InitGpuSpec ==
    /\ InitBuffer({0})
    /\ LAST_METHOD = None
    /\ KITTY_FAILED = FALSE
    /\ ITERM_FAILED = FALSE
    /\ SIXEL_FAILED = FALSE
    /\ out = NoRender
    /\ effective_method = [r \in 1..NumRenderers |-> IF r = 1 THEN "Kitty" ELSE "Sixel"]
    /\ enable_gpu = [r \in 1..NumRenderers |-> TRUE]
    /\ InitQuality({TRUE})
    /\ InitBlocks({1}, {1}, {[w |-> 80, h |-> 24, x |-> 0, y |-> 0]}, {FALSE})
    /\ InitResizeIdle
    /\ InitGpu(BOOLEAN)
    /\ InitPlayerIdle
    /\ InitCallIdle

\* The steps of the thread that is inside process_frame.
ProcessFrameStep ==
    \/ \E poll \in {"ok", "timeout"}, res \in {"ok", "err"} : ProcessFramePoll(poll, res)
    \/ ProcessFrameReceive

NextGpu ==
    \/ \E r \in 1..NumRenderers, f \in GpuFrames, t \in GpuTargets :
          RenderGpuBranch(r, f, t)
    \/ DeviceCompletes
    \/ ProcessFrameStep

SpecGpu == InitGpuSpec /\ [][NextGpu]_vars

\* The rendering thread keeps running; the GPU owes nothing.
FairSpecGpu == SpecGpu /\ WF_vars(ProcessFrameStep)

\* The prefetch worker next to a caller that fills, seeks and clears the
\* buffer, with no stop requested.
InitPrefetchBuffer ==
    /\ InitBuffer(1..MaxPrefetchCapacity)
    /\ InitRenderIdle
    /\ InitPixelIdle

NextPrefetchBuffer ==
    \/ StartPrefetching
    \/ WorkerStep
    \/ \E ts \in DecoderTimestamps : AddFrame(ts)
    \/ \E ts \in Timestamps : Seek(ts)
    \/ Clear

SpecPrefetchBuffer == InitPrefetchBuffer /\ [][NextPrefetchBuffer]_vars

\* The worker is an OS thread, scheduled as long as it can take a step.
FairSpecPrefetchBuffer == SpecPrefetchBuffer /\ WF_vars(WorkerStep)

\* The blend of the Block Renderer on every channel value and alpha of a u8.
InitBlendSpec ==
    /\ InitBuffer({0})
    /\ InitRenderIdle
    /\ InitQuality({TRUE})
    /\ InitBlocks({1}, {1}, {[w |-> 80, h |-> 24, x |-> 0, y |-> 0]}, {FALSE})
    /\ InitResizeIdle
    /\ InitGpu({FALSE})
    /\ InitPlayerIdle
    /\ \E c \in 0..255, a \in 0..255 :
          fn_call = [fn |-> "blend_channel", c |-> c, a |-> a, done |-> FALSE, out |-> 0]

NextBlend == BlendChannel

SpecBlend == InitBlendSpec /\ [][NextBlend]_vars

\* The detection of the method under every environment, outcome of the live
\* test and answer to the Device Attributes query tried.
InitDetectSpec ==
    /\ InitBuffer({0})
    /\ InitRenderIdle
    /\ InitQuality({TRUE})
    /\ InitBlocks({1}, {1}, {[w |-> 80, h |-> 24, x |-> 0, y |-> 0]}, {FALSE})
    /\ InitResizeIdle
    /\ InitGpu({FALSE})
    /\ InitPlayerIdle
    /\ \E k \in BOOLEAN, i \in BOOLEAN, TERM \in Terms, test \in KittyTests,
          da \in DaProbes :
          fn_call = [fn |-> "detect_best_method", kitty_window_id |-> k,
                     iterm_session_id |-> i, term |-> TERM, kitty_test |-> test,
                     da |-> da, done |-> FALSE, out |-> "Auto"]

NextDetect == DetectBestMethod

SpecDetect == InitDetectSpec /\ [][NextDetect]_vars

\* The Sixel bytes of every image tried.
InitSixelSpec ==
    /\ InitBuffer({0})
    /\ InitRenderIdle
    /\ InitQuality({TRUE})
    /\ InitBlocks({1}, {1}, {[w |-> 80, h |-> 24, x |-> 0, y |-> 0]}, {FALSE})
    /\ InitResizeIdle
    /\ InitGpu({FALSE})
    /\ InitPlayerIdle
    /\ \E img \in SixelImages :
          fn_call = [fn |-> "render_sixel", img |-> img, done |-> FALSE, out |-> <<>>]

NextSixel == RenderSixel

SpecSixel == InitSixelSpec /\ [][NextSixel]_vars

\* ================================================================== claims

\* The buffered timestamps strictly after pos, and the smallest of them.
LaterTimestamps(fs, pos) == {fs[i] : i \in {j \in 1..Len(fs) : fs[j] > pos}}
SmallestAfter(fs, pos) ==
    CHOOSE x \in LaterTimestamps(fs, pos) : \A y \in LaterTimestamps(fs, pos) : x <= y

\* C1: a FrameBuffer of capacity C never holds more than C frames, in every
\* state reachable by add_frame, next_frame, seek and clear (cleanup runs inside
\* add_frame and seek), for every C from 0 up.
C1_LenWithinCapacity == Len(frames) <= capacity

\* C1's case: a buffer (C > 0) that is full and has just refused a frame.
C1_Witness ==
    /\ capacity > 0
    /\ Len(frames) = capacity
    /\ ret.op = "add_frame" /\ ~ret.ok

\* C3 as claimed: whenever some buffered frame lies strictly after
\* current_position, next_frame returns the one with the smallest timestamp,
\* whatever order the frames were added in.
C3_NextFrameSmallestAfter ==
    [][(ret'.op = "next_frame" /\ LaterTimestamps(frames, current_position) # {})
        => ret'.frame = Some(SmallestAfter(frames, current_position))]_vars

\* C6: add_frame below capacity appends and returns true; at capacity it
\* returns false and changes nothing when the front frame is not older than
\* current_position - 2 s (cleanup removes nothing), and otherwise drops at
\* least one frame from the front, appends and returns true.
C6_AddFrameAtCapacity ==
    [][ret'.op = "add_frame" =>
        LET ts == ret'.arg[1]
            full == Len(frames) >= capacity
            cutoff == current_position - buffer_time
            frees == frames # <<>> /\ cutoff > 0 /\ frames[1] < cutoff
        IN  /\ ~full => (ret'.ok /\ frames' = Append(frames, ts))
            /\ (full /\ ~frees) =>
                    (~ret'.ok /\ frames' = frames /\ timestamp_map' = timestamp_map)
            /\ (full /\ frees) =>
                    /\ ret'.ok
                    /\ \E k \in 1..Len(frames) :
                          frames' = Append(SubSeq(frames, k + 1, Len(frames)), ts)
            /\ ret'.ok => /\ timestamp_key(ts) \in DOMAIN timestamp_map'
                          /\ timestamp_map'[timestamp_key(ts)] = Len(frames') - 1
    ]_vars

\* C6's case: add_frame met a full buffer, cleanup removed a frame, and the
\* new frame was stored.
C6_Witness ==
    /\ ret.op = "add_frame" /\ ret.ok /\ ret.removed >= 1
    /\ Len(frames) = capacity
    /\ frames[Len(frames)] = ret.arg[1]

\* C7 as claimed: seek(ts) leaves current_position = ts, and when a buffered
\* frame lies strictly after ts the next_frame call that follows returns the
\* one with the smallest timestamp and moves current_position to it.
C7_SeekThenNextFrame ==
    [][/\ ret'.op = "seek" => current_position' = ret'.arg[1]
       /\ (ret.op = "seek" /\ ret'.op = "next_frame"
            /\ LaterTimestamps(frames, current_position) # {})
          => /\ ret'.frame = Some(SmallestAfter(frames, current_position))
             /\ current_position' = SmallestAfter(frames, current_position)
    ]_vars

\* The frames decode_fn has handed to the worker, oldest first.
RECURSIVE DecodedFrames(_)
DecodedFrames(log) ==
    IF log = <<>> THEN <<>>
    ELSE IF log[Len(log)].kind = "frame"
         THEN Append(DecodedFrames(SubSeq(log, 1, Len(log) - 1)), log[Len(log)].ts)
         ELSE DecodedFrames(SubSeq(log, 1, Len(log) - 1))

\* The number of errors in the log since the last decoded frame.
RECURSIVE TrailingErrors(_)
TrailingErrors(log) ==
    IF log = <<>> \/ log[Len(log)].kind = "frame" THEN 0
    ELSE (IF log[Len(log)].kind = "err" THEN 1 ELSE 0)
            + TrailingErrors(SubSeq(log, 1, Len(log) - 1))

TotalErrors(log) == Cardinality({i \in 1..Len(log) : log[i].kind = "err"})

\* C8 as claimed: every frame the prefetch worker has decoded is in the
\* buffer (the worker stops decoding at capacity, so k never exceeds the free
\* capacity of the initially empty buffer).
C8_DecodedFramesBuffered ==
    /\ Len(frames) >= Len(DecodedFrames(decode_log))
    /\ \A i \in 1..Len(DecodedFrames(decode_log)) :
          \E j \in 1..Len(frames) : frames[j] = DecodedFrames(decode_log)[i]

\* C9: stop_prefetching and drop return only after the worker has terminated,
\* no worker runs once its buffer is dropped, a worker that reaches the head of
\* its loop with the stop flag set exits there, and a running worker whose stop
\* flag is set does terminate.
C9_StopJoinsWorker ==
    /\ []((caller = "idle" /\ ret.op \in {"stop_prefetching", "drop"}) => ~WorkerRunning)
    /\ [](dropped => ~WorkerRunning)
    /\ [][(wpc = "loop" /\ stop_prefetch) => wpc' \in {"loop", "finished"}]_vars
    /\ ((stop_prefetch /\ WorkerRunning) ~> (wpc = "finished"))

\* C9's case: the buffer was dropped while its worker was still decoding (the
\* worker ended neither at end-of-stream nor at the error limit), and the drop
\* has returned with the worker terminated.
C9_Witness ==
    /\ dropped /\ ret.op = "drop" /\ ret.ok
    /\ wpc = "finished"
    /\ decode_log # <<>>
    /\ decode_log[Len(decode_log)].kind = "frame"

\* C10: the worker has terminated once decode_fn reported end-of-stream or
\* max_decode_errors errors have come since the last decoded frame;
\* consecutive_errors is the number of errors since the last decoded frame;
\* and a worker that terminated without a stop request did so for one of those
\* two reasons, never because errors separated by a success added up.
C10_WorkerTermination ==
    /\ consecutive_errors = TrailingErrors(decode_log)
    /\ TrailingErrors(decode_log) <= max_decode_errors
    /\ (decode_log # <<>> /\ decode_log[Len(decode_log)].kind = "eos") => wpc = "finished"
    /\ TrailingErrors(decode_log) = max_decode_errors => wpc = "finished"
    /\ (wpc = "finished" /\ ~stop_prefetch) =>
          /\ decode_log # <<>>
          /\ \/ decode_log[Len(decode_log)].kind = "eos"
             \/ TrailingErrors(decode_log) = max_decode_errors

\* C10's case: errors, a success, and then max_decode_errors errors in a row:
\* the worker terminated at the error limit with more errors in total.
C10_Witness ==
    /\ wpc = "finished" /\ ~stop_prefetch
    /\ TrailingErrors(decode_log) = max_decode_errors
    /\ TotalErrors(decode_log) > max_decode_errors
    /\ DecodedFrames(decode_log) # <<>>

\* The sticky failure flag of a protocol.
Failed(m) ==
    IF m = "Kitty" THEN KITTY_FAILED
    ELSE IF m = "ITerm" THEN ITERM_FAILED
    ELSE SIXEL_FAILED

\* C2 as claimed: once a protocol's failure has been recorded, no render()
\* call, by any renderer, invokes that protocol's backend again.
C2_FailedNeverRetried ==
    [][\A m \in Protocols : (Failed(m) /\ out' # out) => out'.backend # m]_vars

\* C4 as claimed: render() never lets a backend's panic out, and a panic is
\* handled like an error: flag set, screen cleared, the same frame rendered
\* through render_blocks.
C4_PanicHandledAsError ==
    /\ out.result # "panic"
    /\ out.backend_result = "panic" =>
          /\ out.flag_set /\ out.cleared /\ out.blocks_called
          /\ out.blocks_frame = out.backend_frame

\* C5: when a backend returns an error, render() renders the frame it gave the
\* backend through render_blocks and returns render_blocks' result, never the
\* backend's error.
C5_ErrorFallsBackToBlocks ==
    out.backend_result = "err" =>
        /\ out.blocks_called
        /\ out.blocks_frame = out.backend_frame
        /\ out.result = (IF out.blocks_result = "ok" THEN "ok" ELSE "blocks_err")

\* C5's case: the Sixel backend returned an error on a GPU-resized frame and
\* render() returned Ok through the Block Renderer.
C5_Witness ==
    /\ out.backend = "Sixel" /\ out.backend_result = "err"
    /\ out.backend_frame.via = "gpu"
    /\ out.blocks_called /\ out.result = "ok"

\* C11: over every sequence of render() calls and measured frame times, the
\* quality factor stays within [0.2, 1.0].
C11_QualityWithinBounds ==
    /\ current_quality_factor >= QualityFloor
    /\ current_quality_factor <= QualityOne

\* C11's case: an adjustment whose product fell below 0.2 and was held at 0.2.
C11_Witness ==
    /\ metrics.branch = "very_low"
    /\ metrics.raw < QualityFloor
    /\ current_quality_factor = QualityFloor

\* The buffered timestamps in the millisecond bucket of ts.
InBucket(fs, ts) ==
    {fs[i] : i \in {j \in 1..Len(fs) : timestamp_key(fs[j]) = timestamp_key(ts)}}

\* C12 as claimed: get_frame_at(ts) returns None only on an empty buffer; on a
\* non-empty one it returns the frame recorded under ts's millisecond bucket
\* when a buffered frame lies in that bucket, and otherwise a buffered frame
\* at minimal absolute distance from ts.
C12_GetFrameAt ==
    [][ret'.op = "get_frame_at" =>
        LET ts == ret'.arg[1]
            r == ret'.frame
        IN  /\ r = None <=> frames = <<>>
            /\ (frames # <<>> /\ InBucket(frames, ts) # {}) =>
                  /\ r # None
                  /\ r[1] \in InBucket(frames, ts)
                  /\ r[1] = frames[timestamp_map[timestamp_key(ts)] + 1]
            /\ (frames # <<>> /\ InBucket(frames, ts) = {}) =>
                  /\ r # None
                  /\ \E i \in 1..Len(frames) : r[1] = frames[i]
                  /\ \A j \in 1..Len(frames) :
                        abs_diff(r[1], ts) <= abs_diff(frames[j], ts)
    ]_vars

\* The columns of the frame whose pixels are transparent in every row.
TransparentColumns(img) ==
    {x \in 0..(img.w - 1) : \A y \in 0..(img.h - 1) : img.px[<<x, y>>][4] = 0}

\* C13 as claimed: when the frame handed to render_blocks is bit-identical to
\* the frame rendered just before, the second render re-emits no row.
C13_IdenticalFrameReemitsNothing ==
    (blocks_out.result = "ok" /\ blocks_out.repeat) => blocks_out.rows = <<>>

\* C14 as claimed: a column that is transparent over the whole frame height
\* gets no cell in any row of the output.
C14_TransparentColumnSkipped ==
    blocks_out.result = "ok" =>
        \A x \in TransparentColumns(image) :
            \A i \in 1..Len(blocks_out.rows) :
                \A j \in 1..Len(blocks_out.rows[i].cells) :
                    blocks_out.rows[i].cells[j].x # x

\* C15 as claimed: for every pixel pair the Block Renderer blends, the batched
\* blend gives the same foreground and background triples as the scalar
\* computation.
C15_BatchedEqualsScalar ==
    blocks_out.result = "ok" =>
        \A i \in 1..Len(blocks_out.rows) :
            \A j \in 1..Len(blocks_out.rows[i].cells) :
                LET c == blocks_out.rows[i].cells[j]
                    y == blocks_out.rows[i].y
                IN  c.ch = "block" =>
                        simd_blend_alpha(top_pixel(image, c.x, y),
                                         bottom_pixel(image, c.x, y))
                            = <<c.fg, c.bg>>

\* C16 as claimed: resize(tw, th, false) returns a frame of exactly tw x th;
\* resize(tw, th, true) returns a frame that fits inside tw x th, with one side
\* equal to its target and the other the source side scaled in proportion and
\* truncated; timestamp and duration are those of the source.
C16_ResizeDimensions ==
    rz.done =>
        LET f == rz.frame
            o == rz.out
        IN  /\ o.ts = f.ts /\ o.dur = f.dur
            /\ ~rz.keep => (o.w = rz.tw /\ o.h = rz.th)
            /\ rz.keep =>
                  /\ o.w <= rz.tw /\ o.h <= rz.th
                  /\ \/ o.w = rz.tw /\ o.h = (rz.tw * f.h) \div f.w
                     \/ o.h = rz.th /\ o.w = (rz.th * f.w) \div f.h

\* Whether the bytes of v, which start at byte `at` of the image, are the
\* image's pixel bytes in order: byte i of the image is byte
\* (i div bytes_per_row) * padded_bytes_per_row + (i mod bytes_per_row) of the
\* mapped buffer, and a run does not reach into a row's padding.
RECURSIVE TightlyPacked(_, _, _)
TightlyPacked(v, tw, at) ==
    \/ v = <<>>
    \/ /\ Head(v).src = "gpu" =>
            /\ Head(v).from = (at \div bytes_per_row(tw)) * padded_bytes_per_row(tw)
                              + (at % bytes_per_row(tw))
            /\ \/ padding(tw) = 0
               \/ (at % bytes_per_row(tw)) + Head(v).n <= bytes_per_row(tw)
       /\ TightlyPacked(Tail(v), tw, at + Head(v).n)

AllZero(v) == \A i \in 1..Len(v) : v[i].src = "zero"

\* C17: whenever process_frame(frame, tw, th) has returned, on any of its
\* return paths, the bytes it returned are exactly 4 * tw * th tightly packed
\* bytes, and on the paths of a failed poll, a short buffer or a failed map
\* they are all zero.
C17_ProcessFrameBytes ==
    gpu_out.path # "none" =>
        /\ VecLen(gpu_out.data) = 4 * gpu_out.tw * gpu_out.th
        /\ TightlyPacked(gpu_out.data, gpu_out.tw, 0)
        /\ gpu_out.path \in {"poll_failed", "short_buffer", "map_failed"} =>
               AllZero(gpu_out.data)

\* C17's case: a readback of padded rows has returned and render() has built
\* the resized frame from it.
C17_Witness ==
    /\ gpu_out.path = "stripped"
    /\ gpu_out.via = "gpu"
    /\ padding(gpu_out.tw) > 0

\* C18: a render() call that has entered the GPU branch returns, whether the
\* singleton was free or held and whether or not the GPU ever finishes the
\* work: the call does not stay inside process_frame for ever.
C18_RenderReturns ==
    \A r \in 1..NumRenderers :
        (GPU_PROCESSOR.lock = r) ~> (GPU_PROCESSOR.lock # r)

\* C19: once a renderer's method is Blocks, by construction or because the
\* failure of its protocol has been recorded, no render() call by that
\* renderer invokes the Kitty, iTerm or Sixel backend, whatever the other
\* renderers of the process have done.
C19_BlocksAbsorbing ==
    [][\A r \in 1..NumRenderers :
          ( /\ \/ effective_method[r] = "Blocks"
               \/ Failed(effective_method[r])
            /\ out' # out
            /\ out'.renderer = r )
          => out'.backend = "none"]_vars

\* C20: after a call that ran cleanup_old_frames (seek, or add_frame on a full
\* buffer) with current_position - 2.0 > 0, no frame that cleanup left in the
\* buffer has a timestamp below current_position - 2.0, whatever the order of
\* insertion.  (The frame that add_frame then appends is not one cleanup left.)
C20_NoFrameBelowCutoff ==
    [][LET ran == \/ ret'.op = "seek"
                  \/ ret'.op = "add_frame" /\ Len(frames) >= capacity
           left == IF ret'.op = "add_frame" /\ ret'.ok
                   THEN SubSeq(frames', 1, Len(frames') - 1)
                   ELSE frames'
       IN  (ran /\ current_position' - buffer_time > 0)
           => \A i \in 1..Len(left) : left[i] >= current_position' - buffer_time]_vars


\* C21: when no buffered frame has a timestamp greater than current_position,
\* next_frame on a non-empty buffer returns the last buffered frame, never
\* None, and leaves current_position at most at that frame's timestamp; on an
\* empty buffer it returns None and leaves current_position unchanged.
C21_NextFrameAtEnd ==
    [][(ret'.op = "next_frame" /\ LaterTimestamps(frames, current_position) = {})
        => IF frames = <<>>
           THEN ret'.frame = None /\ current_position' = current_position
           ELSE /\ ret'.frame = Some(frames[Len(frames)])
                /\ current_position' <= frames[Len(frames)]]_vars

\* C21's case: next_frame has returned the last of several buffered frames
\* with no frame left after the position.
C21_Witness ==
    /\ ret.op = "next_frame"
    /\ Len(frames) >= 2
    /\ ret.frame = Some(frames[Len(frames)])
    /\ LaterTimestamps(frames, current_position) = {}


\* C22: when a backend has failed during a render() call that returned, the
\* memo LAST_METHOD holds Blocks at the return.
C22_FailureMemoIsBlocks ==
    (out.backend_result \in {"err", "panic"} /\ out.result # "panic")
        => LAST_METHOD = Some("Blocks")


\* C23: once a render() call has succeeded with method M and without a backend
\* failure, M is the memo, and the next render() call dispatches to M.
C23_MemoFollowed ==
    [][( /\ out.result = "ok"
         /\ out.backend_result \in {"ok", "none"}
         /\ out.method # "none"
         /\ out' # out )
       => /\ LAST_METHOD = Some(out.method)
          /\ out'.method = out.method]_vars


\* C24: when the worker sleeps on a full buffer and a clear or a cleanup has
\* then made room in the buffer, the worker eventually calls decode_fn again,
\* unless a stop is requested.
C24_WorkerResumes ==
    ( /\ wpc = "sleep_full"
      /\ ret.op \in {"clear", "seek"}
      /\ Len(frames) < capacity
      /\ ~stop_prefetch )
    ~> (wpc = "decode" \/ stop_prefetch)


\* The window in increasing order, by insertion.
RECURSIVE InsertInOrder(_, _)
InsertInOrder(s, v) ==
    IF s = <<>> THEN <<v>>
    ELSE IF v <= Head(s) THEN <<v>> \o s
    ELSE <<Head(s)>> \o InsertInOrder(Tail(s), v)

RECURSIVE InOrder(_)
InOrder(times) ==
    IF times = <<>> THEN <<>>
    ELSE InsertInOrder(InOrder(Tail(times)), Head(times))

\* Twice the median of a non-empty window, in ticks.
Median2(times) ==
    LET s == InOrder(times)
        n == Len(s)
    IN  IF n % 2 = 1 THEN 2 * s[(n + 1) \div 2]
        ELSE s[n \div 2] + s[(n \div 2) + 1]

\* fps < (pct/100) * t and fps > (pct/100) * t for fps = 1/median, the median
\* being m2/2 ticks and t = target_fps.
FpsLess(m2, pct) == 2 * 100 * TicksPerSec < pct * target_fps * m2
FpsMore(m2, pct) == 2 * 100 * TicksPerSec > pct * target_fps * m2

\* The factor after an adjustment step, as the rule states it.
RuleFactor(q, m2) ==
    IF FpsLess(m2, 40) THEN Max(scale(q, 70), QualityFloor)
    ELSE IF FpsLess(m2, 70) THEN Max(scale(q, 85), QualityFloor)
    ELSE IF FpsMore(m2, 170) /\ q < QualityOne THEN Min(scale(q, 120), QualityOne)
    ELSE IF FpsMore(m2, 130) /\ q < QualityOne THEN Min(scale(q, 107), QualityOne)
    ELSE q

\* C25: at each adjustment step (the 15th call since the last one, adaptive
\* resolution on) with a non-empty window, the new quality factor is the old
\* one changed by the rule: x0.7 below 0.4t, x0.85 below 0.7t (floor 0.2),
\* x1.2 above 1.7t, x1.07 above 1.3t (only below 1.0, cap 1.0), else unchanged,
\* for fps = 1/median(window).
C25_AdjustmentRule ==
    [][( /\ adaptive_resolution
         /\ frames_since_quality_adjust + 1 >= adjust_interval
         /\ frame_times' # <<>> )
       => current_quality_factor'
            = RuleFactor(current_quality_factor, Median2(frame_times'))]_vars

\* C25's case: an adjustment step over a full window has just raised the
\* factor by the small step.
C25_Witness ==
    /\ metrics.branch = "good"
    /\ frames_since_quality_adjust = 0
    /\ Len(frame_times) = window_len
    /\ current_quality_factor > QualityFloor


\* C26: the frame-time window never holds more than 15 samples, and only
\* samples strictly between 1 ms and 1000 ms; the quality factor changes only
\* on the 15th render() call since the previous adjustment, and never when
\* adaptive_resolution is off.
C26_WindowAndCadence ==
    /\ [](/\ Len(frame_times) <= 15
          /\ \A i \in 1..Len(frame_times) :
                frame_times[i] > 1 * TicksPerMs /\ frame_times[i] < 1000 * TicksPerMs)
    /\ [][current_quality_factor' # current_quality_factor
            => adaptive_resolution /\ frames_since_quality_adjust = 15 - 1]_vars

\* C26's case: the window is full, a 1000 ms sample has just been refused, and
\* the factor has been changed by an earlier adjustment.
C26_Witness ==
    /\ Len(frame_times) = window_len
    /\ metrics.frame_time = TicksPerSec
    /\ current_quality_factor < QualityOne


\* C27: for every channel value c and alpha a of a u8, the colour the Block
\* Renderer emits for the pixel on opaque black is (c*a + 0*(255-a)) / 255; a
\* fully opaque pixel keeps its channel value.
C27_BlendOnBlack ==
    (fn_call.fn = "blend_channel" /\ fn_call.done) =>
        /\ fn_call.out = (fn_call.c * fn_call.a + 0 * (255 - fn_call.a)) \div 255
        /\ fn_call.a = 255 => fn_call.out = fn_call.c


\* C28: across process_frame calls the cached input texture, output texture
\* and readback buffer are created anew exactly when none is held or the
\* dimensions of the held one differ from the call's, and are otherwise the
\* ones held before; and the bind group of the dispatch refers to the input and
\* output textures of the same call.
Recreated(held, now, dims, call) ==
    IF held = None \/ held[1].dims # dims
    THEN now # None /\ now[1].dims = dims /\ now[1].id = call
    ELSE now = held

C28_BindGroupOfThisCall ==
    GPU_PROCESSOR.bind_group # None =>
        /\ GPU_PROCESSOR.input_texture # None
        /\ GPU_PROCESSOR.output_texture # None
        /\ GPU_PROCESSOR.bind_group[1].input = GPU_PROCESSOR.input_texture[1].id
        /\ GPU_PROCESSOR.bind_group[1].output = GPU_PROCESSOR.output_texture[1].id
        /\ GPU_PROCESSOR.input_texture[1].dims = GPU_PROCESSOR.frame
        /\ GPU_PROCESSOR.output_texture[1].dims = GPU_PROCESSOR.target

C28_ResourceCaching ==
    /\ []C28_BindGroupOfThisCall
    /\ [][GPU_PROCESSOR'.calls # GPU_PROCESSOR.calls =>
            /\ Recreated(GPU_PROCESSOR.input_texture, GPU_PROCESSOR'.input_texture,
                         GPU_PROCESSOR'.frame, GPU_PROCESSOR'.calls)
            /\ Recreated(GPU_PROCESSOR.output_texture, GPU_PROCESSOR'.output_texture,
                         GPU_PROCESSOR'.target, GPU_PROCESSOR'.calls)
            /\ Recreated(GPU_PROCESSOR.output_buffer, GPU_PROCESSOR'.output_buffer,
                         GPU_PROCESSOR'.target, GPU_PROCESSOR'.calls)]_vars

\* The third call returns to the dimensions of the first: the input texture is
\* of the third call, the output texture of the first, and the bind group was
\* made anew over both.
C28_Witness ==
    /\ GPU_PROCESSOR.calls = 3
    /\ GPU_PROCESSOR.bind_group # None
    /\ GPU_PROCESSOR.input_texture[1].id = 3
    /\ GPU_PROCESSOR.output_texture[1].id = 1
    /\ GPU_PROCESSOR.output_buffer[1].id = 1
    /\ GPU_PROCESSOR.bind_group[1].id = 3


\* C29: detect_best_method returns a concrete method, never Auto, by this
\* priority: with the Kitty marker, Kitty when the live test write succeeds and
\* Blocks at once when it does not; else with the iTerm session marker, ITerm;
\* else with a Sixel-capable TERM or a positive answer of the Device Attributes
\* probe, Sixel; else with a TERM containing "iterm", ITerm; else Blocks.
SixelCapableTerms == {TermMlterm, TermYaft, TermXtermSixel}
ItermTerms == {TermIterm}
ByPriority(c) ==
    IF c.kitty_window_id THEN (IF c.kitty_test = "ok" THEN "Kitty" ELSE "Blocks")
    ELSE IF c.iterm_session_id THEN "ITerm"
    ELSE IF c.term \in SixelCapableTerms \/ check_sixel_support(c.da).val THEN "Sixel"
    ELSE IF c.term \in ItermTerms THEN "ITerm"
    ELSE "Blocks"

SixelIntro == <<27, 80, 113>> \o sixel_palette(0)
SixelBodyFirst == Len(SixelIntro) + 1
SixelBodyLast(bytes) == Len(bytes) - 2
\* The positions of the '-' bytes of the body, and the band n between them.
SixelDashes(bytes) == {p \in SixelBodyFirst..SixelBodyLast(bytes) : bytes[p] = 45}
SixelBandEnd(bytes, n) ==
    CHOOSE p \in SixelDashes(bytes) :
        Cardinality({q \in SixelDashes(bytes) : q <= p}) = n
SixelBandStart(bytes, n) ==
    IF n = 1 THEN SixelBodyFirst ELSE SixelBandEnd(bytes, n - 1) + 1
ColourInBand(img, n, c) ==
    \E x \in 0..(img.w - 1), y \in 0..(img.h - 1) :
        /\ y \div 6 = n - 1
        /\ palette_index[img.px[<<x, y>>]] = c
SelectorBeforeData(bytes, n, c) ==
    \E p \in SixelBandStart(bytes, n)..SixelBandEnd(bytes, n) :
        /\ p + Len(decimal(c)) + 1 <= SixelBandEnd(bytes, n)
        /\ SubSeq(bytes, p, p + Len(decimal(c))) = <<35>> \o decimal(c)
        /\ bytes[p + Len(decimal(c)) + 1] >= 63

C30_SixelStructure ==
    (fn_call.fn = "render_sixel" /\ fn_call.done) =>
        LET bytes == fn_call.out
            bands == (fn_call.img.h + 5) \div 6
        IN  /\ Len(bytes) >= Len(SixelIntro) + 2
            /\ SubSeq(bytes, 1, Len(SixelIntro)) = SixelIntro
            /\ SubSeq(bytes, Len(bytes) - 1, Len(bytes)) = <<27, 92>>
            /\ Cardinality(SixelDashes(bytes)) = bands
            /\ bytes[SixelBodyLast(bytes)] = 45
            /\ \A n \in 1..bands, c \in 0..(Len(colors) - 1) :
                  ColourInBand(fn_call.img, n, c) => SelectorBeforeData(bytes, n, c)


\* C34: next_frame never decreases current_position: after any sequence of
\* add_frame, seek and next_frame calls, the position after a next_frame call is
\* at least the position before it.
C34_PositionNeverDecreases ==
    [][ret'.op = "next_frame" => current_position' >= current_position]_vars


\* C35: in every reachable FrameBuffer state, every entry (key, index) of the
\* timestamp lookup has index < len, and the frame at that index has the
\* millisecond key trunc(timestamp * 1000) equal to key, after any interleaving
\* of add_frame, cleanup, seek and clear.
C35_LookupConsistent ==
    \A key \in DOMAIN timestamp_map :
        /\ timestamp_map[key] < Len(frames)
        /\ timestamp_key(frames[timestamp_map[key] + 1]) = key

\* A seek has popped old frames from a buffer that still holds frames, so the
\* indices of the frames left have moved.
C35_Witness ==
    /\ ret.op = "seek" /\ ret.removed > 0
    /\ Len(frames) >= 2
    /\ timestamp_map # EmptyMap


\* C36: after a prefetch worker has exited on its own (end of stream or the
\* error limit, no stop requested), a start_prefetching call starts a new
\* worker.
C36_RestartAfterOwnExit ==
    [][( /\ wpc = "finished" /\ ~stop_prefetch
         /\ ~dropped /\ caller = "idle" /\ caller' = "idle"
         /\ ret'.op = "start_prefetching" )
        => WorkerRunning']_vars


\* C37: render_blocks performs no unsigned underflow and reads no pixel outside
\* the image, for any frame size, terminal size and cell offset, including
\* offsets beyond the terminal's width or twice its height.
C37_NoUnderflowNoStrayPixel ==
    blocks_out.result # "none" =>
        /\ blocks_out.result # "panic"
        /\ ~usize_sub(term.w, term.x, overflow_checks).wrapped
        /\ ~usize_sub(term.h * 2, term.y, overflow_checks).wrapped
        /\ LET v == visible_area(image, term, overflow_checks)
           IN  /\ v.width <= image.w
               /\ v.height >= 1 => 2 * (v.height - 1) < image.h


\* C32: the method a render() call dispatches to is the currently selected
\* one whatever the GPU does: also when the lock wait times out or no GPU
\* processor exists, and the frame was resized on the CPU.
C32_DispatchIgnoresGpu ==
    [][out' # out =>
          out'.method = select_method(effective_method[out'.renderer], LAST_METHOD,
                                      KITTY_FAILED, ITERM_FAILED, SIXEL_FAILED)]_vars


\* C33: whenever no process_frame call is running, the readback buffer is
\* unmapped and has no map request pending, whichever way the last call
\* returned, so that the next call can copy into the cached buffer.
C33_BufferLeftUnmapped ==
    GPU_PROCESSOR.pc = "idle" => GPU_PROCESSOR.map_state = "unmapped"


(***************************************************************************)
(* LocalMediaPlayer: volume and mute (media/local.rs)                      *)
(***************************************************************************)

\* AudioControl (local.rs:16-21).  The sink's volume is kept in hundredths,
\* so that vol as f32 / 100.0 is the integer vol.
SetVolumeMsg(vol) == [cmd |-> "SetVolume", vol |-> vol, muted |-> FALSE]
ToggleMuteMsg(muted) == [cmd |-> "ToggleMute", vol |-> 0, muted |-> muted]

\* i32::clamp(0, 100) (local.rs:224).
clamp(v, lo, hi) == IF v < lo THEN lo ELSE IF v > hi THEN hi ELSE v

\* tx.send (local.rs:230, 246): the message joins the channel while the audio
\* thread holds the receiver; after the thread has ended the send fails and
\* the error is dropped.
send(audio, msg) ==
    IF audio.running THEN [audio EXCEPT !.chan = Append(@, msg)] ELSE audio

\* LocalMediaPlayer::set_volume (local.rs:223-237).
set_volume(p, v) ==
    LET clamped_volume == clamp(v, 0, 100)
        q == [p EXCEPT !.volume = clamped_volume,
                       !.last = [op |-> "set_volume", ok |-> TRUE, err |-> "none"]] IN
    IF ~p.muted
      THEN [q EXCEPT !.audio = send(p.audio, SetVolumeMsg(clamped_volume))]
      ELSE q

\* LocalMediaPlayer::toggle_mute (local.rs:240-250).
toggle_mute(p) ==
    [p EXCEPT !.muted = ~p.muted,
              !.audio = send(p.audio, ToggleMuteMsg(~p.muted)),
              !.last = [op |-> "toggle_mute", ok |-> TRUE, err |-> "none"]]

\* One message handled by the audio thread (local.rs:101-121).
audio_control(sink, msg) ==
    IF msg.cmd = "SetVolume" THEN msg.vol
    ELSE IF msg.muted THEN 0
    ELSE 50

\* The volumes a caller asks for: below, inside and above the range.
VolumeRequests == {-1, 0, 80, 100, 101}

SetVolume ==
    /\ Len(player.audio.chan) < MaxControlMessages
    /\ \E v \in VolumeRequests : player' = set_volume(player, v)
    /\ UNCHANGED <<bufVars, ret, threadVars, workerVars, renderVars, qualityVars,
                   blockVars, rz, gpuVars, fn_call>>

ToggleMute ==
    /\ Len(player.audio.chan) < MaxControlMessages
    /\ player' = toggle_mute(player)
    /\ UNCHANGED <<bufVars, ret, threadVars, workerVars, renderVars, qualityVars,
                   blockVars, rz, gpuVars, fn_call>>

\* One turn of the audio thread's loop with a message waiting (local.rs:100-121).
AudioThreadStep ==
    /\ player.audio.running
    /\ player.audio.chan # <<>>
    /\ player' = [player EXCEPT
                    !.audio.sink = audio_control(@, Head(player.audio.chan)),
                    !.audio.chan = Tail(@)]
    /\ UNCHANGED <<bufVars, ret, threadVars, workerVars, renderVars, qualityVars,
                   blockVars, rz, gpuVars, fn_call>>

\* The sound has played to its end: the loop breaks and the thread ends,
\* dropping the receiver and what waits in it (local.rs:124-133).
AudioPlaybackEnds ==
    /\ player.audio.running
    /\ player' = [player EXCEPT !.audio.running = FALSE, !.audio.chan = <<>>]
    /\ UNCHANGED <<bufVars, ret, threadVars, workerVars, renderVars, qualityVars,
                   blockVars, rz, gpuVars, fn_call>>

InitAudioSpec ==
    /\ InitBuffer({0})
    /\ InitRenderIdle
    /\ InitQuality({TRUE})
    /\ InitBlocks({1}, {1}, {[w |-> 80, h |-> 24, x |-> 0, y |-> 0]}, {FALSE})
    /\ InitResizeIdle
    /\ InitGpu({FALSE})
    /\ InitCallIdle
    /\ player = new_player(TRUE)

NextAudio ==
    \/ SetVolume
    \/ ToggleMute
    \/ AudioThreadStep
    \/ AudioPlaybackEnds

SpecAudio == InitAudioSpec /\ [][NextAudio]_vars

\* C39: once the audio thread has handled every control message, the sink's
\* volume is 0 when the player is muted and the player's volume setting
\* otherwise, and that setting lies in 0..100.
C39_SinkFollowsVolumeAndMute ==
    /\ player.volume \in 0..100
    /\ (player.audio.running /\ player.audio.chan = <<>>) =>
          player.audio.sink = (IF player.muted THEN 0 ELSE player.volume)

\* The part of C39 about the range of the volume setting.
C39_VolumeInRange == player.volume \in 0..100


(***************************************************************************)
(* LocalMediaPlayer: playback (media/local.rs, video/decoder.rs)           *)
(***************************************************************************)

\* The video: frame i is stamped i / frame_rate seconds, and the stream lasts
\* MaxVideoFrames frames.  It decodes without error; only a seek can fail.
VideoTimestamp(i) == (i * TicksPerSec) \div VideoFps
VideoTimestamps == {VideoTimestamp(i) : i \in 0..(MaxVideoFrames - 1)}
VideoDuration == VideoTimestamp(MaxVideoFrames)

\* buffer_capacity = (5.0 * frame_rate).ceil() (local.rs:45).
buffer_capacity == 5 * VideoFps

\* frame.timestamp = -1.0, the mark of a frame shown while paused
\* (local.rs:267, 284).
paused_marker == -TicksPerSec

\* VideoDecoder::decode_next_frame (decoder.rs:210-347): None once end of
\* stream was seen, else the next frame, else end of stream is noted.
decode_next_frame(d) ==
    IF d.eof THEN [decoder |-> d, frame |-> None]
    ELSE IF d.next < MaxVideoFrames
    THEN [decoder |-> [d EXCEPT !.next = @ + 1], frame |-> Some(VideoTimestamp(d.next))]
    ELSE [decoder |-> [d EXCEPT !.eof = TRUE], frame |-> None]

\* VideoDecoder::seek (decoder.rs:350-402): the target is clamped to the
\* stream; if one of the attempts succeeds the decoder continues from the
\* frame at the target and end of stream is forgotten, else nothing changes.
decoder_seek(d, ts, seek_ok) ==
    LET timestamp_secs == Min(Max(ts, 0), VideoDuration) IN
    IF seek_ok
    THEN [next |-> (timestamp_secs * VideoFps) \div TicksPerSec, eof |-> FALSE]
    ELSE d

\* VideoDecoder::decode_current_frame (decoder.rs:404-424): decodes the next
\* frame and seeks back to where the decoder stood, whatever that seek says.
decode_current_frame(d, seek_ok) ==
    IF d.eof THEN [decoder |-> d, frame |-> None]
    ELSE LET r == decode_next_frame(d) IN
         IF r.frame # None
         THEN [decoder |-> decoder_seek(r.decoder, VideoTimestamp(d.next), seek_ok),
               frame |-> r.frame]
         ELSE r

\* Instant::now() (local.rs:318, 381, 426): a reading of the clock that
\* differs from the one before it.
Instant_now(before) == 1 - before

\* The player and its frame buffer, as one value the methods work on.
PlayerState(fs, m, cap, pos, p) ==
    [frames |-> fs, map |-> m, cap |-> cap, pos |-> pos, p |-> p]

\* self.frame_buffer.add_frame(frame), its result dropped (local.rs:293, 331,
\* 353, 388, 437, 446).
buffer_add(st, ts) ==
    LET r == add_frame(st.frames, st.map, st.cap, st.pos, ts)
    IN  [st EXCEPT !.frames = r.frames, !.map = r.map]

\* What a method returns: the state it leaves and Ok or the error.
Returns(st, op, err) ==
    [st EXCEPT !.p.last = [op |-> op, ok |-> err = "none", err |-> err]]

\* update() while paused (local.rs:254-307).
update_paused(st, render_ok, seek_ok) ==
    LET s1 == [st EXCEPT !.p.prefetching_active = FALSE]
        cf == get_frame_at(s1.frames, s1.map, s1.pos)
        r  == decode_current_frame(s1.p.decoder, seek_ok)
        s2 == [s1 EXCEPT !.p.decoder = r.decoder]
    IN  IF cf # None
        THEN \* the buffered frame, marked -1.0, is rendered and not stored
             IF render_ok THEN Returns(s1, "update", "none")
             ELSE Returns(s1, "update", "render")
        ELSE IF r.frame # None /\ r.frame[1] >= 0
        THEN IF render_ok
             THEN Returns(buffer_add(s2, paused_marker), "update", "none")
             ELSE Returns(s2, "update", "render")
        ELSE Returns(s2, "update", "none")

\* update() while playing, when the next frame is due (local.rs:309-372).
update_playing(st, render_ok) ==
    LET nf == next_frame(st.frames, st.pos)
        s1 == [st EXCEPT !.pos = nf.pos, !.p.last_frame_time = Instant_now(@)]
        dr == decode_next_frame(s1.p.decoder)
        s2 == IF nf.frame # None THEN s1
              ELSE IF dr.frame # None
              THEN buffer_add([s1 EXCEPT !.p.decoder = dr.decoder], dr.frame[1])
              ELSE [s1 EXCEPT !.p.decoder = dr.decoder]
        frame == IF nf.frame # None THEN nf.frame ELSE dr.frame
        s3 == [s2 EXCEPT !.p.current_timestamp = frame[1]]
        ahead == decode_next_frame(s3.p.decoder)
    IN  IF frame = None THEN Returns(s2, "update", "none")
        ELSE IF ~render_ok THEN Returns(s3, "update", "render")
        ELSE IF Len(s3.frames) < s3.cap \div 2
        THEN IF ahead.frame # None
             THEN Returns(buffer_add([s3 EXCEPT !.p.decoder = ahead.decoder,
                                                !.p.prefetching_active = TRUE],
                                     ahead.frame[1]),
                          "update", "none")
             ELSE Returns([s3 EXCEPT !.p.decoder = ahead.decoder], "update", "none")
        ELSE Returns([s3 EXCEPT !.p.prefetching_active = FALSE], "update", "none")

\* LocalMediaPlayer::update (local.rs:252-372).
update(st, render_ok, seek_ok) ==
    IF st.p.paused THEN update_paused(st, render_ok, seek_ok)
    ELSE update_playing(st, render_ok)

\* LocalMediaPlayer::toggle_pause (local.rs:374-405).
toggle_pause(st, seek_ok) ==
    LET s1 == [st EXCEPT !.p.paused = ~@, !.p.last_frame_time = Instant_now(@)]
        r  == decode_current_frame(s1.p.decoder, seek_ok)
        c  == cleanup_old_frames(s1.frames, s1.map, s1.p.current_timestamp)
    IN  IF s1.p.paused
        THEN IF get_frame_at(s1.frames, s1.map, s1.pos) = None
             THEN IF r.frame # None
                  THEN Returns(buffer_add([s1 EXCEPT !.p.decoder = r.decoder,
                                                     !.p.prefetching_active = FALSE],
                                          r.frame[1]),
                               "toggle_pause", "none")
                  ELSE Returns([s1 EXCEPT !.p.decoder = r.decoder,
                                          !.p.prefetching_active = FALSE],
                               "toggle_pause", "none")
             ELSE Returns([s1 EXCEPT !.p.prefetching_active = FALSE],
                          "toggle_pause", "none")
        ELSE Returns([s1 EXCEPT !.pos = s1.p.current_timestamp,
                                !.frames = c.frames, !.map = c.map,
                                !.p.prefetching_active = TRUE],
                     "toggle_pause", "none")

\* The loop after a seek: up to n more frames decoded into the buffer
\* (local.rs:443-453).
RECURSIVE prefetch_after_seek(_, _)
prefetch_after_seek(st, n) ==
    LET r == decode_next_frame(st.p.decoder) IN
    IF n = 0 THEN st
    ELSE IF r.frame # None
    THEN prefetch_after_seek(
             buffer_add([st EXCEPT !.p.decoder = r.decoder,
                                   !.p.prefetching_active = TRUE], r.frame[1]),
             n - 1)
    ELSE [st EXCEPT !.p.decoder = r.decoder]

\* LocalMediaPlayer::seek (local.rs:407-460): the buffer is cleared and the
\* prefetch flag reset, then the decoder is asked; the buffer's own seek finds
\* the buffer empty.
player_seek(st, ts, seek_ok, render_ok) ==
    LET s1 == [st EXCEPT !.frames = <<>>, !.map = EmptyMap, !.pos = 0,
                         !.p.prefetching_active = FALSE]
        s2 == [s1 EXCEPT !.p.decoder = decoder_seek(@, ts, seek_ok),
                         !.p.current_timestamp = ts, !.pos = ts,
                         !.p.last_frame_time = Instant_now(@)]
        r  == decode_next_frame(s2.p.decoder)
        s3 == [buffer_add([s2 EXCEPT !.p.decoder = r.decoder], r.frame[1])
                 EXCEPT !.p.current_timestamp = r.frame[1]]
    IN  IF ~seek_ok THEN Returns(s1, "seek", "decoder_seek")
        ELSE IF r.frame = None
        THEN Returns([s2 EXCEPT !.p.decoder = r.decoder], "seek", "none")
        ELSE IF ~render_ok THEN Returns(s3, "seek", "render")
        ELSE Returns(prefetch_after_seek(s3, 3), "seek", "none")

ThisPlayer == PlayerState(frames, timestamp_map, capacity, current_position, player)

\* The positions a user seeks to: the start, inside the video, its end.
SeekTargets == {0, VideoTimestamp(2), VideoDuration}

Update ==
    \E render_ok \in BOOLEAN, seek_ok \in BOOLEAN :
      \E st \in {update(ThisPlayer, render_ok, seek_ok)} :
        /\ frames' = st.frames
        /\ timestamp_map' = st.map
        /\ current_position' = st.pos
        /\ player' = st.p
        /\ UNCHANGED <<capacity, ret, threadVars, workerVars, renderVars, qualityVars,
                       blockVars, rz, gpuVars, fn_call>>

TogglePause ==
    \E seek_ok \in BOOLEAN :
      \E st \in {toggle_pause(ThisPlayer, seek_ok)} :
        /\ frames' = st.frames
        /\ timestamp_map' = st.map
        /\ current_position' = st.pos
        /\ player' = st.p
        /\ UNCHANGED <<capacity, ret, threadVars, workerVars, renderVars, qualityVars,
                       blockVars, rz, gpuVars, fn_call>>

PlayerSeek ==
    \E ts \in SeekTargets, seek_ok \in BOOLEAN, render_ok \in BOOLEAN :
      \E st \in {player_seek(ThisPlayer, ts, seek_ok, render_ok)} :
        /\ frames' = st.frames
        /\ timestamp_map' = st.map
        /\ current_position' = st.pos
        /\ player' = st.p
        /\ UNCHANGED <<capacity, ret, threadVars, workerVars, renderVars, qualityVars,
                       blockVars, rz, gpuVars, fn_call>>

InitPlayerSpec ==
    /\ InitBuffer({buffer_capacity})
    /\ InitRenderIdle
    /\ InitQuality({TRUE})
    /\ InitBlocks({1}, {1}, {[w |-> 80, h |-> 24, x |-> 0, y |-> 0]}, {FALSE})
    /\ InitResizeIdle
    /\ InitGpu({FALSE})
    /\ InitCallIdle
    /\ player = new_player(FALSE)

NextPlayer ==
    \/ Update
    \/ TogglePause
    \/ PlayerSeek

SpecPlayer == InitPlayerSpec /\ [][NextPlayer]_vars

\* The loop that drives the player calls update() again and again.
FairSpecPlayer == SpecPlayer /\ WF_vars(Update)


\* C38: a seek that fails in the decoder returns the error and leaves
\* current_timestamp, the frame buffer's contents and position, and the
\* prefetch flag as they were before the call.
C38_FailedSeekChangesNothing ==
    [][(player'.last.op = "seek" /\ player'.last.err = "decoder_seek") =>
          /\ player'.current_timestamp = player.current_timestamp
          /\ frames' = frames
          /\ timestamp_map' = timestamp_map
          /\ current_position' = current_position
          /\ player'.prefetching_active = player.prefetching_active]_vars

\* The part of C38 about the error and the playback position.
C38_FailedSeekKeepsTimestamp ==
    [][(player'.last.op = "seek" /\ player'.last.err = "decoder_seek") =>
          /\ ~player'.last.ok
          /\ player'.current_timestamp = player.current_timestamp
          /\ player'.decoder = player.decoder
          /\ player'.paused = player.paused]_vars

\* C40: every frame in the player's buffer carries a timestamp the decoder
\* assigned; the paused-display marker -1.0 is never stored.
C40_BufferKeepsDecoderTimestamps ==
    \A i \in 1..Len(frames) :
        /\ frames[i] # paused_marker
        /\ frames[i] \in VideoTimestamps

\* The decoder can still deliver a frame.
DecoderHasFrames == ~player.decoder.eof /\ player.decoder.next < MaxVideoFrames

\* C31: while the player plays and the decoder still has frames, the updates
\* carry current_timestamp past every value it had; a pause, a seek, a failed
\* update or the decoder running out ends the obligation.
C31_PlaybackAdvances ==
    \A v \in VideoTimestamps :
        (~player.paused /\ DecoderHasFrames /\ player.current_timestamp = v
            /\ player.last.op = "update" /\ player.last.ok)
        ~> (\/ player.current_timestamp > v
            \/ player.paused
            \/ ~DecoderHasFrames
            \/ player.last.op # "update"
            \/ ~player.last.ok)

====
